---- MODULE Spec2Model ----
(***************************************************************************)
(* A model of the Ranvier URL mapper (lib/python/ranvier): the mapping     *)
(* table of UrlMapper, the enumerator that fills it from a resource tree,  *)
(* backward mapping (mapurl), matching (match), the rendered table         *)
(* (render / load) and forward dispatch (handle_request).                  *)
(*                                                                         *)
(* Strings of the program are sequences of one-character strings, so that  *)
(* formatting, splitting, joining and matching are computed as the code    *)
(* computes them.  None is the empty sequence where the code only tests    *)
(* truthiness (rootloc, format).                                           *)
(***************************************************************************)
EXTENDS Integers, Sequences, FiniteSets, TLC

(***************************************************************************)
(* Python string primitives.                                               *)
(***************************************************************************)
DigitChars == <<"0", "1", "2", "3", "4", "5", "6", "7", "8", "9">>

IsDigit(c) == \E i \in 1..Len(DigitChars) : DigitChars[i] = c

DigitVal(c) == (CHOOSE i \in 1..Len(DigitChars) : DigitChars[i] = c) - 1

LowerChars ==
  {"a", "b", "c", "d", "e", "f", "g", "h", "i", "j", "k", "l", "m", "n", "o", "p", "q", "r",
   "s", "t", "u", "v", "w", "x", "y", "z"}

IsLower(c) == c \in LowerChars

StartsWith(s, p) == Len(p) <= Len(s) /\ SubSeq(s, 1, Len(p)) = p

EndsWith(s, p) == Len(p) <= Len(s) /\ SubSeq(s, Len(s) - Len(p) + 1, Len(s)) = p

DropFirst(s, n) == SubSeq(s, n + 1, Len(s))

Contains(s, c) == \E i \in 1..Len(s) : s[i] = c

\* s.find(c): the 1-based index of the first c, 0 when there is none.
Find(s, c) == IF Contains(s, c) THEN CHOOSE i \in 1..Len(s) : s[i] = c /\ \A j \in 1..(i - 1) : s[j] # c ELSE 0

RECURSIVE SplitAcc(_, _, _, _)
SplitAcc(s, sep, cur, acc) ==
  IF s = <<>> THEN Append(acc, cur)
  ELSE IF Head(s) = sep THEN SplitAcc(Tail(s), sep, <<>>, Append(acc, cur))
  ELSE SplitAcc(Tail(s), sep, Append(cur, Head(s)), acc)

\* s.split(sep) for a one-character separator.
Split(s, sep) == SplitAcc(s, sep, <<>>, <<>>)

RECURSIVE Join(_, _)
\* sep.join(parts)
Join(parts, sep) ==
  IF parts = <<>> THEN <<>>
  ELSE IF Len(parts) = 1 THEN parts[1]
  ELSE parts[1] \o sep \o Join(Tail(parts), sep)

RECURSIVE StripLeft(_)
StripLeft(s) == IF s # <<>> /\ Head(s) = " " THEN StripLeft(Tail(s)) ELSE s

RECURSIVE StripRight(_)
StripRight(s) == IF s # <<>> /\ s[Len(s)] = " " THEN StripRight(SubSeq(s, 1, Len(s) - 1)) ELSE s

\* s.strip()
Strip(s) == StripRight(StripLeft(s))

RECURSIVE Spaces(_)
Spaces(n) == IF n <= 0 THEN <<>> ELSE <<" ">> \o Spaces(n - 1)

RECURSIVE Zeros(_)
Zeros(n) == IF n <= 0 THEN <<>> ELSE <<"0">> \o Zeros(n - 1)

RECURSIVE IntToStr(_)
\* str(n) for n >= 0
IntToStr(n) == IF n < 10 THEN <<DigitChars[n + 1]>> ELSE IntToStr(n \div 10) \o <<DigitChars[(n % 10) + 1]>>

RECURSIVE StrToIntAcc(_, _)
StrToIntAcc(s, acc) == IF s = <<>> THEN acc ELSE StrToIntAcc(Tail(s), acc * 10 + DigitVal(Head(s)))

\* int(s) for a string of decimal digits
StrToInt(s) == StrToIntAcc(s, 0)

\* Lexicographic order of two strings by character code, as cmp() on str.
CharCodes ==
  <<" ", "%", "(", ")", "+", "-", ".", "/", "0", "1", "2", "3", "4", "5", "6", "7", "8", "9",
    ":", "<", "=", ">", "?", "@", "A", "B", "C", "D", "E", "F", "G", "H", "I", "J", "K", "L",
    "M", "N", "O", "P", "Q", "R", "S", "T", "U", "V", "W", "X", "Y", "Z", "[", "\\", "]", "^",
    "_", "a", "b", "c", "d", "e", "f", "g", "h", "i", "j", "k", "l", "m", "n", "o", "p", "q",
    "r", "s", "t", "u", "v", "w", "x", "y", "z">>

Ord(c) == CHOOSE i \in 1..Len(CharCodes) : CharCodes[i] = c

RECURSIVE StrLess(_, _)
StrLess(a, b) ==
  IF b = <<>> THEN FALSE
  ELSE IF a = <<>> THEN TRUE
  ELSE IF Head(a) # Head(b) THEN Ord(Head(a)) < Ord(Head(b))
  ELSE StrLess(Tail(a), Tail(b))

(***************************************************************************)
(* urlparse.urlsplit / urlunsplit, as mapper.py uses them.  The alphabet   *)
(* has no '#', so the fragment is always empty.                            *)
(***************************************************************************)
UpperChars ==
  {"A", "B", "C", "D", "E", "F", "G", "H", "I", "J", "K", "L", "M", "N", "O", "P", "Q", "R",
   "S", "T", "U", "V", "W", "X", "Y", "Z"}

IsSchemeChar(c) == IsLower(c) \/ c \in UpperChars \/ IsDigit(c) \/ c \in {"+", "-", "."}

\* 1-based index of the ':' that ends the scheme of url, 0 when it has none.
SchemeEnd(url) ==
  IF Find(url, ":") > 1 /\ \A j \in 1..(Find(url, ":") - 1) : IsSchemeChar(url[j])
  THEN Find(url, ":")
  ELSE 0

\* 1-based index of the first '/' or '?' at or after position 3, Len+1 if none.
NetlocEnd(s) ==
  IF \E i \in 3..Len(s) : s[i] \in {"/", "?"}
  THEN CHOOSE i \in 3..Len(s) : s[i] \in {"/", "?"} /\ \A j \in 3..(i - 1) : s[j] \notin {"/", "?"}
  ELSE Len(s) + 1

\* The path and the query of what follows the netloc.
SplitQuery(scheme, netloc, rest) ==
  [scheme |-> scheme, netloc |-> netloc,
   path |-> IF Contains(rest, "?") THEN SubSeq(rest, 1, Find(rest, "?") - 1) ELSE rest,
   query |-> IF Contains(rest, "?") THEN DropFirst(rest, Find(rest, "?")) ELSE <<>>,
   fragment |-> <<>>]

\* The netloc of what follows the scheme: present when it starts with '//'.
SplitNetloc(scheme, rest) ==
  IF StartsWith(rest, <<"/", "/">>)
  THEN SplitQuery(scheme, SubSeq(rest, 3, NetlocEnd(rest) - 1), DropFirst(rest, NetlocEnd(rest) - 1))
  ELSE SplitQuery(scheme, <<>>, rest)

UrlSplitAt(url, i) ==
  IF i > 0 THEN SplitNetloc(SubSeq(url, 1, i - 1), DropFirst(url, i)) ELSE SplitNetloc(<<>>, url)

\* urlparse.urlsplit(url)
UrlSplit(url) == UrlSplitAt(url, SchemeEnd(url))

\* urlparse.urlunsplit((scheme, netloc, path, query, fragment))
UrlUnsplit(scheme, netloc, path, query, fragment) ==
  (IF scheme # <<>> THEN scheme \o <<":">> ELSE <<>>)
  \o (IF netloc # <<>> \/ (scheme # <<>> /\ ~StartsWith(path, <<"/", "/">>))
      THEN <<"/", "/">> \o netloc \o (IF path # <<>> /\ Head(path) # "/" THEN <<"/">> ELSE <<>>)
      ELSE <<>>)
  \o path
  \o (IF query # <<>> THEN <<"?">> \o query ELSE <<>>)

(***************************************************************************)
(* Outcomes of a call: err is "ok" or the name of the exception raised.    *)
(***************************************************************************)
Ok(v) == [err |-> "ok", val |-> v]

Raise(e) == [err |-> e, val |-> <<>>]

(***************************************************************************)
(* enumerator.py: components.                                              *)
(***************************************************************************)
FixedComponent(name) == [isvar |-> FALSE, name |-> name, format |-> <<>>]

\* VarComponent.__init__ removes a leading '%' of the format.
VarComponent(varname, format) ==
  [isvar |-> TRUE, name |-> varname,
   format |-> IF format # <<>> /\ Head(format) = "%" THEN Tail(format) ELSE format]

\* OptParam.__init__
OptParam(varname, format) ==
  [name |-> varname,
   format |-> IF format # <<>> /\ Head(format) = "%" THEN Tail(format) ELSE format]

(***************************************************************************)
(* mapper.py: compre and urlpattern_to_components.                         *)
(***************************************************************************)
IsFormatChar(c) == IsLower(c) \/ IsDigit(c) \/ c = "-"

NoMatch == [matched |-> FALSE, varname |-> <<>>, varformat |-> <<>>]

\* The groups ([a-z][a-z_]*) and ([a-z0-9\-]+) of compre
CompreGroups(name, hasformat, format) ==
  IF /\ name # <<>> /\ IsLower(name[1])
     /\ \A i \in 2..Len(name) : IsLower(name[i]) \/ name[i] = "_"
     /\ ~hasformat \/ (format # <<>> /\ \A i \in 1..Len(format) : IsFormatChar(format[i]))
  THEN [matched |-> TRUE, varname |-> name, varformat |-> format]
  ELSE NoMatch

\* What stands between the parentheses: a name, then '%' and a format.
CompreInner(inner) ==
  IF Contains(inner, "%")
  THEN CompreGroups(SubSeq(inner, 1, Find(inner, "%") - 1), TRUE, DropFirst(inner, Find(inner, "%")))
  ELSE CompreGroups(inner, FALSE, <<>>)

\* compre.match(comp): '^\(([a-z][a-z_]*)(?:%([a-z0-9\-]+))?\)$'
CompreMatch(comp) ==
  IF Len(comp) < 3 \/ Head(comp) # "(" \/ comp[Len(comp)] # ")" THEN NoMatch
  ELSE CompreInner(SubSeq(comp, 2, Len(comp) - 1))

RECURSIVE ParseComps(_, _)
RECURSIVE ParseComp(_, _, _)
\* The loop over path.split('/') of urlpattern_to_components.
ParseComps(comps, acc) ==
  IF comps = <<>> THEN Ok(acc) ELSE ParseComp(comps, acc, CompreMatch(Head(comps)))

\* One component, mo being compre.match(comp).
ParseComp(comps, acc, mo) ==
  IF mo.matched THEN ParseComps(Tail(comps), Append(acc, VarComponent(mo.varname, mo.varformat)))
  ELSE IF Contains(Head(comps), ")") \/ Contains(Head(comps), "(") THEN Raise("RanvierError")
  ELSE ParseComps(Tail(comps), Append(acc, FixedComponent(Head(comps))))

\* The tuple urlpattern_to_components returns, from the parsed components.
PatternResult(sp, isterminal, parsed) ==
  IF parsed.err # "ok" THEN parsed
  ELSE Ok([unparsed |-> [scheme |-> sp.scheme, netloc |-> sp.netloc,
                         absolute |-> sp.scheme # <<>> \/ sp.netloc # <<>> \/ StartsWith(sp.path, <<"/">>),
                         components |-> parsed.val, query |-> sp.query, fragment |-> sp.fragment],
           isterminal |-> isterminal])

\* The path without its leading '/': a trailing '/' makes the mapping
\* terminal and is removed before the split.
PatternPath(sp, path) ==
  IF EndsWith(path, <<"/">>)
  THEN PatternResult(sp, TRUE, ParseComps(Split(SubSeq(path, 1, Len(path) - 1), "/"), <<>>))
  ELSE PatternResult(sp, FALSE, ParseComps(Split(path, "/"), <<>>))

PatternSplit(sp) ==
  IF StartsWith(sp.path, <<"/">>) THEN PatternPath(sp, Tail(sp.path)) ELSE PatternPath(sp, sp.path)

urlpattern_to_components(urlpattern) == PatternSplit(UrlSplit(urlpattern))

(***************************************************************************)
(* Python values handed to mapurl and returned by match.                   *)
(***************************************************************************)
PyNone == [t |-> "none", s |-> <<>>, n |-> 0]

PyStr(s) == [t |-> "str", s |-> s, n |-> 0]

PyInt(n) == [t |-> "int", s |-> <<>>, n |-> n]

PyFloat(s) == [t |-> "float", s |-> s, n |-> 0]

\* The values Mapping.__init__ receives as 'isterminal' and 'optparams'.
PyBool(b) == [t |-> "bool", b |-> b, l |-> <<>>]

PyList(l) == [t |-> "list", b |-> FALSE, l |-> l]

PyNoArg == [t |-> "none", b |-> FALSE, l |-> <<>>]

\* bool(v) for these values
Truthy(v) == IF v.t = "bool" THEN v.b ELSE IF v.t = "list" THEN v.l # <<>> ELSE FALSE

(***************************************************************************)
(* The % operator on a template and a dict: 'template % params'.           *)
(***************************************************************************)
RECURSIVE DigitRun(_)
\* number of leading decimal digits of s
DigitRun(s) == IF s # <<>> /\ IsDigit(Head(s)) THEN 1 + DigitRun(Tail(s)) ELSE 0

\* The width of w digits and the conversion character that follow the flags.
SpecWidth(s, zero, left, w) ==
  [zero |-> zero, left |-> left,
   width |-> IF w = 0 THEN 0 ELSE StrToInt(SubSeq(s, 1, w)),
   conv |-> IF Len(s) > w THEN s[w + 1] ELSE "",
   rest |-> DropFirst(s, w + 1)]

RECURSIVE SpecFlags(_, _, _)
\* The flags '0' and '-' that start a conversion specification.
SpecFlags(s, zero, left) ==
  IF s # <<>> /\ Head(s) = "0" THEN SpecFlags(Tail(s), TRUE, left)
  ELSE IF s # <<>> /\ Head(s) = "-" THEN SpecFlags(Tail(s), zero, TRUE)
  ELSE SpecWidth(s, zero, left, DigitRun(s))

\* The conversion specification that starts s, and what follows it.
ParseSpec(s) == SpecFlags(s, FALSE, FALSE)

Pad(body, spec, zeroable) ==
  IF spec.width <= Len(body) THEN body
  ELSE IF spec.left THEN body \o Spaces(spec.width - Len(body))
  ELSE IF spec.zero /\ zeroable THEN Zeros(spec.width - Len(body)) \o body
  ELSE Spaces(spec.width - Len(body)) \o body

\* str(v)
PyToStr(v) == IF v.t = "int" THEN IntToStr(v.n) ELSE IF v.t \in {"str", "float"} THEN v.s ELSE <<"N", "o", "n", "e">>

\* One converted value, or the exception the conversion raises.
FormatValue(spec, v) ==
  IF spec.conv = "s" THEN Ok(Pad(PyToStr(v), spec, FALSE))
  ELSE IF spec.conv = "d"
  THEN IF v.t = "int" THEN Ok(Pad(IntToStr(v.n), spec, TRUE)) ELSE Raise("TypeError")
  ELSE IF spec.conv = "f"
  THEN IF v.t = "int" THEN Ok(Pad(IntToStr(v.n) \o <<".", "0", "0", "0", "0", "0", "0">>, spec, TRUE))
       ELSE Raise("TypeError")
  ELSE Raise("ValueError")

RECURSIVE PyModAcc(_, _, _)
RECURSIVE PyModKey(_, _, _, _)
RECURSIVE PyModValue(_, _, _, _)
\* The template is copied up to a '%'; '%(key)' is followed by a conversion.
PyModAcc(t, params, acc) ==
  IF t = <<>> THEN Ok(acc)
  ELSE IF Head(t) # "%" THEN PyModAcc(Tail(t), params, Append(acc, Head(t)))
  ELSE IF Len(t) < 2 THEN Raise("ValueError")
  ELSE IF t[2] = "%" THEN PyModAcc(DropFirst(t, 2), params, Append(acc, "%"))
  ELSE IF t[2] # "(" THEN Raise("TypeError")
  ELSE IF ~Contains(t, ")") THEN Raise("ValueError")
  ELSE PyModKey(SubSeq(t, 3, Find(t, ")") - 1), ParseSpec(DropFirst(t, Find(t, ")"))), params, acc)

PyModKey(key, spec, params, acc) ==
  IF key \notin DOMAIN params THEN Raise("KeyError")
  ELSE PyModValue(FormatValue(spec, params[key]), spec.rest, params, acc)

PyModValue(f, rest, params, acc) ==
  IF f.err # "ok" THEN f ELSE PyModAcc(rest, params, acc \o f.val)

\* template % params
PyMod(template, params) == PyModAcc(template, params, <<>>)

(***************************************************************************)
(* mapper.py: class Mapping.                                               *)
(***************************************************************************)
VarComps(components) == SelectSeq(components, LAMBDA c : c.isvar)

\* The variable component of this name
VarNamed(vs, name) == CHOOSE c \in {vs[i] : i \in 1..Len(vs)} : c.name = name

VarNames(vs) == {vs[i].name : i \in 1..Len(vs)}

\* What create_path_templates puts for one component
TemplatePart(comp, typed) ==
  IF ~comp.isvar THEN comp.name
  ELSE IF comp.format # <<>> /\ typed THEN <<"%", "(">> \o comp.name \o <<")">> \o comp.format
  ELSE <<"%", "(">> \o comp.name \o <<")", "s">>

\* Mapping.create_path_templates: (urltmpl, urltmpl_untyped)
create_path_templates(components) ==
  << Join([i \in 1..Len(components) |-> TemplatePart(components[i], TRUE)], <<"/">>),
     Join([i \in 1..Len(components) |-> TemplatePart(components[i], FALSE)], <<"/">>) >>

\* The variable-collision loop of Mapping.__init__: TRUE when a name repeats.
HasCollision(vs) == \E i, j \in 1..Len(vs) : i < j /\ vs[i].name = vs[j].name

\* The fields Mapping.__init__ sets
MappingFields(resid, unparsed, isterminal, resobj, tmpls, vs) ==
  [resid |-> resid,
   prefix |-> <<unparsed.scheme, unparsed.netloc>>,
   suffix |-> <<unparsed.query, unparsed.fragment>>,
   absolute |-> unparsed.absolute,
   components |-> unparsed.components,
   resource |-> resobj,
   isterminal |-> Truthy(isterminal),
   optparams |-> {},
   urltmpl |-> tmpls[1],
   urltmpl_untyped |-> tmpls[2],
   positional |-> [i \in 1..Len(vs) |-> vs[i].name],
   vardict |-> [nm \in VarNames(vs) |-> PyNone],
   formats |-> [nm \in VarNames(vs) |-> VarNamed(vs, nm).format]]

\* Mapping.__init__(resid, unparsed, isterminal, resobj, optparams): the dict
\* of optional parameters is built from 'optparams or ()', which is empty
\* unless optparams is True or a non-empty list, and neither can be iterated
\* into (name, OptParam) pairs.
Mapping(resid, unparsed, isterminal, resobj, optparams) ==
  IF optparams.t = "bool" /\ optparams.b THEN Raise("TypeError")
  ELSE IF optparams.t = "list" /\ optparams.l # <<>> THEN Raise("TypeError")
  ELSE IF HasCollision(VarComps(unparsed.components)) THEN Raise("RanvierError")
  ELSE Ok(MappingFields(resid, unparsed, isterminal, resobj,
                        create_path_templates(unparsed.components), VarComps(unparsed.components)))

\* Mapping.isvalid
isvalid(mapping, cname) == cname \in DOMAIN mapping.vardict \/ cname \in mapping.optparams

\* The trailing slash _render adds to the path of a mapping with isterminal set
TrailingSlash(mapping, path) ==
  IF mapping.isterminal /\ ~EndsWith(path, <<"/">>) THEN path \o <<"/">> ELSE path

\* The URL _render puts together from the substituted template
RenderedUrl(mapping, sub, first_comp) ==
  IF sub.err # "ok" THEN sub
  ELSE Ok(UrlUnsplit(mapping.prefix[1], mapping.prefix[2],
                     TrailingSlash(mapping, first_comp \o <<"/">> \o sub.val),
                     mapping.suffix[1], mapping.suffix[2]))

\* _render as it would be if it put the root location before every path
_render_prefixed(mapping, template, params, rootloc) ==
  RenderedUrl(mapping, PyMod(template, params), rootloc)

\* Mapping._render(template, params, rootloc), render_trailing left at its default
_render(mapping, template, params, rootloc) ==
  RenderedUrl(mapping, PyMod(template, params), IF mapping.absolute THEN <<>> ELSE rootloc)

\* Mapping.render
MappingRender(mapping, params, rootloc) == _render(mapping, mapping.urltmpl, params, rootloc)

\* The params of render_pattern: each variable stands as '(name)' or '(name%format)'
PatternParams(vs) ==
  [nm \in VarNames(vs) |->
     PyStr(IF VarNamed(vs, nm).format # <<>>
           THEN <<"(">> \o nm \o <<"%">> \o VarNamed(vs, nm).format \o <<")">>
           ELSE <<"(">> \o nm \o <<")">>)]

\* Mapping.render_pattern
render_pattern(mapping, rootloc) ==
  _render(mapping, mapping.urltmpl_untyped, PatternParams(VarComps(mapping.components)), rootloc)

\* '(?P<name>class+)'
NamedGroup(name, class) == <<"(", "?", "P", "<">> \o name \o <<">">> \o class \o <<"+", ")">>

\* The group render_regexp_matcher gives a variable of this format
FormatGroup(name, format) ==
  IF format = <<>> \/ EndsWith(format, <<"s">>) THEN NamedGroup(name, <<"[", "^", "/", "]">>)
  ELSE IF EndsWith(format, <<"d">>) THEN NamedGroup(name, <<"[", "0", "-", "9", "]">>)
  ELSE NamedGroup(name, <<"[", "0", "-", "9", "\\", ".", "\\", "+", "\\", "-", "]">>)

\* The params of render_regexp_matcher: a variable whose format ends in
\* none of s, d, f gets no entry.
RegexpParams(vs) ==
  [nm \in {n \in VarNames(vs) : VarNamed(vs, n).format = <<>>
                                  \/ VarNamed(vs, n).format[Len(VarNamed(vs, n).format)] \in {"s", "d", "f"}} |->
     PyStr(FormatGroup(nm, VarNamed(vs, nm).format))]

\* The trailing slash is made optional.
OptionalSlash(restring) ==
  IF restring.err # "ok" THEN restring
  ELSE IF EndsWith(restring.val, <<"/">>) THEN Ok(restring.val \o <<"?">>)
  ELSE Ok(restring.val \o <<"/", "?">>)

\* render_regexp_matcher as it would be if it left the root location out
render_regexp_matcher_norootloc(mapping, rootloc) ==
  OptionalSlash(_render(mapping, mapping.urltmpl_untyped, RegexpParams(VarComps(mapping.components)), <<>>))

\* Mapping.render_regexp_matcher
render_regexp_matcher(mapping, rootloc) ==
  OptionalSlash(_render(mapping, mapping.urltmpl_untyped, RegexpParams(VarComps(mapping.components)), rootloc))

(***************************************************************************)
(* The regular expressions render_regexp_matcher can produce, as Python's  *)
(* re module reads them: literals, '.', a trailing '?', and named groups   *)
(* of one character class repeated with '+'.                               *)
(***************************************************************************)
RECURSIVE ClassChars(_)
\* The characters a class body lists: escapes and the range 0-9.
ClassChars(body) ==
  IF body = <<>> THEN {}
  ELSE IF Head(body) = "\\" /\ Len(body) >= 2 THEN {body[2]} \cup ClassChars(DropFirst(body, 2))
  ELSE IF Len(body) >= 3 /\ body[2] = "-" /\ IsDigit(body[1]) /\ IsDigit(body[3])
       THEN {DigitChars[i] : i \in (DigitVal(body[1]) + 1)..(DigitVal(body[3]) + 1)} \cup ClassChars(DropFirst(body, 3))
  ELSE {Head(body)} \cup ClassChars(Tail(body))

ReLit(c) == [k |-> "lit", c |-> c, neg |-> FALSE, set |-> {}, name |-> <<>>, opt |-> FALSE]

ReAny == [k |-> "any", c |-> "", neg |-> FALSE, set |-> {}, name |-> <<>>, opt |-> FALSE]

ReGroup(name, body) ==
  [k |-> "grp", c |-> "", neg |-> body # <<>> /\ Head(body) = "^",
   set |-> ClassChars(IF body # <<>> /\ Head(body) = "^" THEN Tail(body) ELSE body),
   name |-> name, opt |-> FALSE]

RECURSIVE ReParse(_, _)
RECURSIVE ReParseGroup(_, _, _, _)
\* re.compile: the token list of a pattern, or re.error.
ReParse(re, acc) ==
  IF re = <<>> THEN Ok(acc)
  ELSE IF Head(re) = "?"
  THEN IF acc = <<>> \/ acc[Len(acc)].opt THEN Raise("re.error")
       ELSE ReParse(Tail(re), [acc EXCEPT ![Len(acc)].opt = TRUE])
  ELSE IF Head(re) = "." THEN ReParse(Tail(re), Append(acc, ReAny))
  ELSE IF Head(re) = "\\"
  THEN IF Len(re) < 2 THEN Raise("re.error") ELSE ReParse(DropFirst(re, 2), Append(acc, ReLit(re[2])))
  ELSE IF Head(re) = "(" THEN ReParseGroup(re, acc, Find(re, ">"), Find(re, "]"))
  ELSE IF Head(re) \in {")", "[", "+", "*"} THEN Raise("re.error")
  ELSE ReParse(Tail(re), Append(acc, ReLit(Head(re))))

\* A named group '(?P<name>[class]+)', whose '>' is at gt and ']' at rb.
ReParseGroup(re, acc, gt, rb) ==
  IF StartsWith(re, <<"(", "?", "P", "<">>) /\ gt > 5 /\ rb > gt + 1 /\ re[gt + 1] = "["
     /\ Len(re) >= rb + 2 /\ re[rb + 1] = "+" /\ re[rb + 2] = ")"
  THEN ReParse(DropFirst(re, rb + 2),
               Append(acc, ReGroup(SubSeq(re, 5, gt - 1), SubSeq(re, gt + 2, rb - 1))))
  ELSE Raise("re.error")

InClass(tok, c) == IF tok.neg THEN c \notin tok.set ELSE c \in tok.set

RECURSIVE ClassRun(_, _)
\* length of the longest prefix of s inside the group's class
ClassRun(tok, s) == IF s # <<>> /\ InClass(tok, Head(s)) THEN 1 + ClassRun(tok, Tail(s)) ELSE 0


NoMatchObject(caps) == [ok |-> FALSE, caps |-> caps]

RECURSIVE ReMatchToks(_, _, _)
RECURSIVE ReTryRun(_, _, _, _)
RECURSIVE ReOptional(_, _, _, _)
\* Anchored match of the tokens against all of s, greedy with backtracking.
ReMatchToks(toks, s, caps) ==
  IF toks = <<>> THEN [ok |-> s = <<>>, caps |-> caps]
  ELSE IF Head(toks).k = "grp" THEN ReTryRun(toks, s, caps, ClassRun(Head(toks), s))
  ELSE IF s # <<>> /\ (Head(toks).k = "any" \/ Head(s) = Head(toks).c)
  THEN ReOptional(toks, s, caps, ReMatchToks(Tail(toks), Tail(s), caps))
  ELSE ReOptional(toks, s, caps, NoMatchObject(caps))

\* A token followed by '?' may also match nothing.
ReOptional(toks, s, caps, taken) ==
  IF taken.ok THEN taken
  ELSE IF Head(toks).opt THEN ReMatchToks(Tail(toks), s, caps)
  ELSE NoMatchObject(caps)

RECURSIVE ReTryRest(_, _, _, _, _)
\* A group takes the longest run the rest of the pattern allows.
ReTryRun(toks, s, caps, k) ==
  IF k <= 0 THEN NoMatchObject(caps)
  ELSE ReTryRest(toks, s, caps, k, ReMatchToks(Tail(toks), DropFirst(s, k), Append(caps, SubSeq(s, 1, k))))

ReTryRest(toks, s, caps, k, r) == IF r.ok THEN r ELSE ReTryRun(toks, s, caps, k - 1)

\* The literal float(s) reads, without its sign
Unsigned(s) == IF s # <<>> /\ Head(s) \in {"+", "-"} THEN Tail(s) ELSE s

\* float(s) accepts s: an optional sign, digits with at most one '.', a digit at least.
IsFloatLiteral(s) ==
  /\ \A i \in 1..Len(Unsigned(s)) : IsDigit(Unsigned(s)[i]) \/ Unsigned(s)[i] = "."
  /\ \E i \in 1..Len(Unsigned(s)) : IsDigit(Unsigned(s)[i])
  /\ Cardinality({i \in 1..Len(Unsigned(s)) : Unsigned(s)[i] = "."}) <= 1

IsConv(format, c) == format # <<>> /\ EndsWith(format, <<c>>)

\* The loop of match as it would be without the conversions
ConvertGroupAsStr(format, value) == PyStr(value)

\* The value match stores for a group of this format
ConvertGroup(format, value) ==
  IF IsConv(format, "d") THEN PyInt(StrToInt(value))
  ELSE IF IsConv(format, "f") THEN PyFloat(value)
  ELSE PyStr(value)

\* The position of this name in mapping.positional
PositionOf(positional, name) == CHOOSE i \in 1..Len(positional) : positional[i] = name

Min(a, b) == IF a < b THEN a ELSE b

\* The dict of converted groups built by the loop at the end of UrlMapper.match,
\* over the n pairs of zip(mapping.positional, mo.groups()).
MatchResults(mapping, groups, n) ==
  IF \E i \in 1..n : IsConv(mapping.formats[mapping.positional[i]], "f") /\ ~IsFloatLiteral(groups[i])
  THEN Raise("ValueError")
  ELSE Ok([nm \in {mapping.positional[i] : i \in 1..n} |->
             ConvertGroup(mapping.formats[nm], groups[PositionOf(mapping.positional, nm)])])

MatchNone == [err |-> "ok", none |-> TRUE, dict |-> <<>>]

MatchRaise(e) == [err |-> e, none |-> FALSE, dict |-> <<>>]

MatchDict(res) == [err |-> res.err, none |-> FALSE, dict |-> res.val]

\* mo = mre.match(path) and what match returns for it
MatchObject(mapping, mo) ==
  IF ~mo.ok THEN MatchNone
  ELSE MatchDict(MatchResults(mapping, mo.caps, Min(Len(mapping.positional), Len(mo.caps))))

\* mre = re.compile('^%s$' % restring)
MatchCompiled(mapping, toks, url) ==
  IF toks.err # "ok" THEN MatchRaise(toks.err)
  ELSE MatchObject(mapping, ReMatchToks(toks.val, UrlSplit(url).path, <<>>))

MatchRestring(mapping, restring, url) ==
  IF restring.err # "ok" THEN MatchRaise(restring.err)
  ELSE MatchCompiled(mapping, ReParse(restring.val, <<>>), url)

\* UrlMapper.match, given the mapping of resid.  none: the call returned None.
MatchMapping(mapping, rootloc, url) ==
  MatchRestring(mapping, render_regexp_matcher(mapping, rootloc), url)

(***************************************************************************)
(* Resource trees.  A tree is a sequence of nodes, node 1 the root; a node *)
(* refers to another by its index, 0 for none.                             *)
(*   cls       the resource class                                          *)
(*   clsname   the Python class name, from which a resource-id is derived  *)
(*   resid     the explicit resource-id, <<>> when none was given          *)
(*   children  Folder: the (name, node) items in iteration order           *)
(*   default   Folder: [kind |-> "none" | "name" | "res", name, node]      *)
(*   varname, format   the variable a leaf consumes                        *)
(*   optparams the optional parameters the node declares                   *)
(***************************************************************************)
NoDefault == [kind |-> "none", name |-> <<>>, node |-> 0]

DefaultName(name) == [kind |-> "name", name |-> name, node |-> 0]

DefaultRes(n) == [kind |-> "res", name |-> <<>>, node |-> n]

Node(cls, clsname, resid, children, default, varname, format, optparams) ==
  [cls |-> cls, clsname |-> clsname, resid |-> resid, children |-> children, default |-> default,
   varname |-> varname, format |-> format, optparams |-> optparams]

Child(name, n) == [name |-> name, node |-> n]

\* Resource.hasresid
hasresid(node) == node.resid # <<>>

\* ranvier._atat_namexform and Resource.getresid
getresid(node) == IF hasresid(node) THEN node.resid ELSE <<"@", "@">> \o node.clsname

\* The child of this name
ChildNamed(children, name) == CHOOSE c \in {children[i] : i \in 1..Len(children)} : c.name = name

HasChildNamed(children, name) == \E i \in 1..Len(children) : children[i].name = name

\* Folder.__init__ and Folder.__setitem__: a default given by name becomes the
\* child of that name as soon as there is one.
FolderDefault(node) ==
  IF node.default.kind = "name" /\ HasChildNamed(node.children, node.default.name)
  THEN DefaultRes(ChildNamed(node.children, node.default.name).node)
  ELSE node.default

(***************************************************************************)
(* enumerator.py: EnumVisitor.                                             *)
(***************************************************************************)
NoComp == [isvar |-> FALSE, name |-> <<"N", "o", "n", "e">>, format |-> <<>>]

EnumVisitor(resource) ==
  [resource |-> resource, branchs |-> <<>>, isleaf |-> FALSE, leafcomp |-> NoComp,
   leafhascomp |-> FALSE, optparams |-> <<>>]

declare_target(visitor, varname, format) ==
  IF visitor.isleaf THEN Raise("RanvierError")
  ELSE IF format # <<>> /\ varname = <<>> THEN Raise("RanvierError")
  ELSE IF varname = <<>>
       THEN Ok([visitor EXCEPT !.isleaf = TRUE, !.leafhascomp = FALSE])
       ELSE Ok([visitor EXCEPT !.isleaf = TRUE, !.leafhascomp = TRUE, !.leafcomp = VarComponent(varname, format)])

declare_optparam(visitor, varname, format) ==
  [visitor EXCEPT !.optparams = Append(@, OptParam(varname, format))]

branch_anon(visitor, delegate) ==
  [visitor EXCEPT !.branchs = Append(@, [res |-> delegate, hascomp |-> FALSE, comp |-> NoComp])]

branch_static(visitor, component, delegate) ==
  [visitor EXCEPT !.branchs = Append(@, [res |-> delegate, hascomp |-> TRUE, comp |-> FixedComponent(component)])]

branch_var(visitor, varname, delegate, format) ==
  [visitor EXCEPT !.branchs = Append(@, [res |-> delegate, hascomp |-> TRUE, comp |-> VarComponent(varname, format)])]

RECURSIVE DeclareOptParams(_, _)
DeclareOptParams(visitor, ops) ==
  IF ops = <<>> THEN visitor
  ELSE DeclareOptParams(declare_optparam(visitor, Head(ops).name, Head(ops).format), Tail(ops))

(***************************************************************************)
(* enum_targets of the resource classes.                                   *)
(***************************************************************************)
RECURSIVE BranchChildren(_, _)
\* FolderBase.enum_targets
BranchChildren(visitor, children) ==
  IF children = <<>> THEN visitor
  ELSE BranchChildren(branch_static(visitor, Head(children).name, Head(children).node), Tail(children))

\* The part of Folder.enum_targets that follows FolderBase.enum_targets
FolderDeclareDefault(node, visitor, dflt) ==
  IF dflt.kind = "none" THEN Ok(visitor)
  ELSE IF hasresid(node) THEN declare_target(visitor, <<>>, <<>>)
  ELSE IF dflt.kind = "res" /\ \A i \in 1..Len(node.children) : node.children[i].node # dflt.node
  THEN Ok(branch_anon(visitor, dflt.node))
  ELSE Ok(visitor)

\* Folder.enum_targets
FolderEnumTargets(node, visitor) ==
  FolderDeclareDefault(node, BranchChildren(visitor, node.children), FolderDefault(node))

\* bool(dflt): a Folder is a dict, false when it has no children.
DefaultIsTrue(tree, dflt) ==
  IF dflt.kind = "none" THEN FALSE
  ELSE IF dflt.kind = "name" THEN dflt.name # <<>>
  ELSE ~(tree[dflt.node].cls \in {"Folder", "FolderWithMenu"} /\ tree[dflt.node].children = <<>>)

\* bool(self._default)
DefaultTruthy(tree, node) == DefaultIsTrue(tree, FolderDefault(node))

\* The part of FolderWithMenu.enum_targets that follows Folder.enum_targets
MenuDeclareTarget(tree, node, r) ==
  IF r.err # "ok" THEN r
  ELSE IF ~(DefaultTruthy(tree, node) /\ hasresid(node)) THEN declare_target(r.val, <<>>, <<>>)
  ELSE r

\* FolderWithMenu.enum_targets
FolderWithMenuEnumTargets(tree, node, visitor) == MenuDeclareTarget(tree, node, FolderEnumTargets(node, visitor))

LeafDeclareOptParams(node, r) == IF r.err # "ok" THEN r ELSE Ok(DeclareOptParams(r.val, node.optparams))

\* LeafResource.enum_targets, and a leaf that declares optional parameters
\* (OptionalParams of the demo) or consumes a trailing variable (VarResource).
LeafEnumTargets(node, visitor) == LeafDeclareOptParams(node, declare_target(visitor, node.varname, node.format))

\* DelegaterResource.enum_targets: an anonymous branch to the next resource
DelegaterEnumTargets(node, visitor) == Ok(branch_anon(visitor, node.next))

\* CompVarResource.enum_targets: a variable branch to the next resource
CompVarEnumTargets(node, visitor) == Ok(branch_var(visitor, node.varname, node.next, node.format))

enum_targets(tree, n, visitor) ==
  IF tree[n].cls = "Folder" THEN FolderEnumTargets(tree[n], visitor)
  ELSE IF tree[n].cls = "FolderWithMenu" THEN FolderWithMenuEnumTargets(tree, tree[n], visitor)
  ELSE IF tree[n].cls \in {"Delegater", "RemoveBase"} THEN DelegaterEnumTargets(tree[n], visitor)
  ELSE IF tree[n].cls = "CompVar" THEN CompVarEnumTargets(tree[n], visitor)
  ELSE LeafEnumTargets(tree[n], visitor)

(***************************************************************************)
(* enumerator.py: Enumerator.  A path is the 4-tuple visit() appends:      *)
(* (leafres, leaf_components, new_optparams, isterminal).                  *)
(***************************************************************************)
\* The path visit() would append if it left out the variable the leaf
\* declared for itself
LeafPathNoTrailing(visitor, components, new_optparams) ==
  << visitor.resource, components, PyList(new_optparams), PyBool(visitor.branchs # <<>>) >>

\* The path visit() appends for a visitor that declared a target
LeafPath(visitor, components, new_optparams) ==
  << visitor.resource,
     IF visitor.leafhascomp THEN Append(components, visitor.leafcomp) ELSE components,
     PyList(new_optparams),
     PyBool(visitor.branchs # <<>>) >>

RECURSIVE visit(_, _, _, _, _)
RECURSIVE Visited(_, _, _, _, _)
RECURSIVE VisitBranches(_, _, _, _, _)
RECURSIVE VisitedBranch(_, _, _, _, _)
\* Enumerator.visit
visit(tree, resource, components, optparams, accpaths) ==
  Visited(tree, enum_targets(tree, resource, EnumVisitor(resource)), components, optparams, accpaths)

\* visit(), once the resource has declared its targets to the visitor r.val
Visited(tree, r, components, optparams, accpaths) ==
  IF r.err # "ok" THEN r
  ELSE VisitBranches(tree, r.val.branchs, components, optparams \o r.val.optparams,
                     IF r.val.isleaf
                     THEN Append(accpaths, LeafPath(r.val, components, optparams \o r.val.optparams))
                     ELSE accpaths)

\* The loop of visit() over the branches
VisitBranches(tree, branches, components, new_optparams, accpaths) ==
  IF branches = <<>> THEN Ok(accpaths)
  ELSE VisitedBranch(tree, branches, components, new_optparams,
                     visit(tree, Head(branches).res,
                           IF Head(branches).hascomp THEN Append(components, Head(branches).comp) ELSE components,
                           new_optparams, accpaths))

VisitedBranch(tree, branches, components, new_optparams, r) ==
  IF r.err # "ok" THEN r ELSE VisitBranches(tree, Tail(branches), components, new_optparams, r.val)

\* Enumerator.visit_root followed by getpaths
visit_root(tree) == visit(tree, 1, <<>>, <<>>, <<>>)

(***************************************************************************)
(* The resource trees handed to UrlMapper.initialize, and the other inputs *)
(* of the operations.                                                      *)
(***************************************************************************)
NoFormat == <<>>

NoOptParams == <<>>

Leaf(clsname) == Node("Leaf", <<clsname>>, <<>>, <<>>, NoDefault, <<>>, NoFormat, NoOptParams)

\* A root folder whose default names its child 'h'; leaves with and without a
\* variable, with a formatted variable, and with an optional parameter.
DemoTree ==
  << Node("Folder", <<"F">>, <<>>, <<Child(<<"u">>, 3), Child(<<"h">>, 2), Child(<<"v">>, 4), Child(<<"w">>, 5)>>,
          DefaultName(<<"h">>), <<>>, NoFormat, NoOptParams),
     Leaf("H"),
     Node("VarResource", <<"U">>, <<>>, <<>>, NoDefault, <<"u">>, NoFormat, NoOptParams),
     Node("VarResource", <<"V">>, <<>>, <<>>, NoDefault, <<"v">>, <<"%", "0", "3", "d">>, NoOptParams),
     Node("Leaf", <<"W">>, <<>>, <<>>, NoDefault, <<>>, NoFormat, <<OptParam(<<"c">>, NoFormat)>>) >>

\* A folder 's' whose default is a resource that is not one of its children.
DefaultTree ==
  << Node("Folder", <<"F">>, <<>>, <<Child(<<"s">>, 2), Child(<<"h">>, 4)>>, NoDefault, <<>>, NoFormat, NoOptParams),
     Node("Folder", <<"F">>, <<>>, <<>>, DefaultRes(3), <<>>, NoFormat, NoOptParams),
     Leaf("D"),
     Leaf("H") >>

\* A folder that lists its children: a leaf that has branches.
MenuTree ==
  << Node("FolderWithMenu", <<"M">>, <<"R">>, <<Child(<<"h">>, 2)>>, NoDefault, <<>>, NoFormat, NoOptParams),
     Leaf("H") >>

\* The demo's InternalRedirectTest: a leaf whose handler redirects
\* internally to the URL of the resource-id 'target'
InternalRedirectTest(clsname, target) ==
  [Leaf(clsname) EXCEPT !.cls = "InternalRedirectTest"] @@ [target |-> target]

\* A root folder whose default names a child it does not have; resources
\* that redirect internally to a leaf, to another redirect and to
\* themselves; a folder in the folder; a variable-consuming leaf that
\* declares an optional parameter of the name of its variable.
RedirectTree ==
  << Node("Folder", <<"F">>, <<>>,
          <<Child(<<"a">>, 2), Child(<<"b">>, 3), Child(<<"l">>, 4), Child(<<"h">>, 5), Child(<<"f">>, 6),
            Child(<<"u">>, 8)>>,
          DefaultName(<<"x">>), <<>>, NoFormat, NoOptParams),
     InternalRedirectTest("A", <<"@", "@", "H">>),
     InternalRedirectTest("B", <<"@", "@", "A">>),
     InternalRedirectTest("L", <<"@", "@", "L">>),
     Leaf("H"),
     Node("Folder", <<"F">>, <<>>, <<Child(<<"g">>, 7)>>, NoDefault, <<>>, NoFormat, NoOptParams),
     Leaf("G"),
     Node("VarResource", <<"U">>, <<>>, <<>>, NoDefault, <<"u">>, NoFormat, <<OptParam(<<"u">>, NoFormat)>>) >>

\* DelegaterResource(next_resource) whose handle_this returns None, or a
\* value when rcode is true
Delegater(clsname, next_resource, rcode) ==
  [Leaf(clsname) EXCEPT !.cls = "Delegater"] @@ [next |-> next_resource, rcode |-> rcode]

\* CompVarResource(compname, next_resource)
CompVar(clsname, compname, next_resource) ==
  [Leaf(clsname) EXCEPT !.cls = "CompVar", !.varname = compname] @@ [next |-> next_resource]

\* RemoveBase(count, next)
RemoveBase(clsname, count, next_resource) ==
  [Leaf(clsname) EXCEPT !.cls = "RemoveBase"] @@ [next |-> next_resource, count |-> count]

\* Delegators under a root folder: one whose local step succeeds and one
\* whose local step fails, a variable-consuming delegator, and one that
\* removes two components before a folder.
MiscTree ==
  << Node("Folder", <<"F">>, <<>>,
          <<Child(<<"d">>, 2), Child(<<"e">>, 4), Child(<<"c">>, 6), Child(<<"m">>, 8)>>,
          NoDefault, <<>>, NoFormat, NoOptParams),
     Delegater("T", 3, FALSE),
     Leaf("P"),
     Delegater("X", 5, TRUE),
     Leaf("Q"),
     CompVar("C", <<"n">>, 7),
     Leaf("N"),
     RemoveBase("M", 2, 9),
     Node("Folder", <<"F">>, <<>>, <<Child(<<"k">>, 10)>>, NoDefault, <<>>, NoFormat, NoOptParams),
     Leaf("K") >>

\* FolderWithMenu(_default=default, _resid=resid, h=H()): the default is
\* None, the name of the child, a leaf resource that is not a child (node 4)
\* or an empty Folder (node 3).
MenuConfig(default, resid) ==
  << Node("FolderWithMenu", <<"M">>, resid, <<Child(<<"h">>, 2)>>, default, <<>>, NoFormat, NoOptParams),
     Leaf("H"),
     Node("Folder", <<"E">>, <<>>, <<>>, NoDefault, <<>>, NoFormat, NoOptParams),
     Leaf("D") >>

Trees ==
  << DemoTree, DefaultTree, MenuTree, RedirectTree, MiscTree,
     MenuConfig(NoDefault, <<>>),
     MenuConfig(DefaultName(<<"h">>), <<>>), MenuConfig(DefaultName(<<"h">>), <<"R">>),
     MenuConfig(DefaultRes(4), <<>>), MenuConfig(DefaultRes(4), <<"R">>),
     MenuConfig(DefaultRes(3), <<>>), MenuConfig(DefaultRes(3), <<"R">>) >>

\* The trees the table is built from for either value of render_trailing
BuildTrees == {1, 2, 3, 4}

\* The trees the calls on the mapping table are made with
TableTrees == {1, 2, 3}

\* The resource object of a mapping: a node of a tree, or None.
NoRes == [tree |-> 0, node |-> 0]

Res(t, n) == [tree |-> t, node |-> n]

(***************************************************************************)
(* mapper.py: class UrlMapper.  The table 'mappings' is a function from    *)
(* resource-ids to Mapping records.                                        *)
(***************************************************************************)
\* _add_mapping as it would be without the check for uniqueness
_add_mapping_overwrite(table, mapping) ==
  Ok([id \in DOMAIN table \cup {mapping.resid} |-> IF id = mapping.resid THEN mapping ELSE table[id]])

\* UrlMapper._add_mapping
_add_mapping(table, mapping) ==
  IF mapping.resid \in DOMAIN table THEN Raise("RanvierError")
  ELSE Ok(table @@ (mapping.resid :> mapping))

\* The 6-tuple initialize builds for a path of the tree: relative to rootloc
TreeUnparsed(components) ==
  [scheme |-> <<>>, netloc |-> <<>>, absolute |-> FALSE,
   components |-> components, query |-> <<>>, fragment |-> <<>>]

\* What initialize leaves when it ends or raises: the exception and the table
Initialized(e, table) == [err |-> e, val |-> table]

RECURSIVE AddPaths(_, _, _)
RECURSIVE AddPathMapping(_, _, _, _)
RECURSIVE AddedPath(_, _, _, _)
\* The loop of UrlMapper.initialize over enumrator.getpaths(), which unpacks
\* each path as (resource, components, isterminal, optparams).
AddPaths(table, t, paths) ==
  IF paths = <<>> THEN Initialized("ok", table)
  ELSE AddPathMapping(table, t, paths,
                      Mapping(getresid(Trees[t][Head(paths)[1]]), TreeUnparsed(Head(paths)[2]),
                              Head(paths)[3], Res(t, Head(paths)[1]), Head(paths)[4]))

AddPathMapping(table, t, paths, mapping) ==
  IF mapping.err # "ok" THEN Initialized(mapping.err, table)
  ELSE AddedPath(table, t, paths, _add_mapping(table, mapping.val))

AddedPath(table, t, paths, added) ==
  IF added.err # "ok" THEN Initialized(added.err, table) ELSE AddPaths(added.val, t, Tail(paths))

\* initialize, once the enumerator has visited the tree
InitializePaths(table, t, paths) ==
  IF paths.err # "ok" THEN Initialized(paths.err, table) ELSE AddPaths(table, t, paths.val)

\* UrlMapper.initialize
initialize(table, t) == InitializePaths(table, t, visit_root(Trees[t]))

\* Mapping(resid, unparsed, isterminal) of a parsed URL pattern
StaticMapping(resid, parsed) ==
  IF parsed.err # "ok" THEN parsed
  ELSE Mapping(resid, parsed.val.unparsed, PyBool(parsed.val.isterminal), NoRes, PyNoArg)

\* self._add_mapping(mapping), when the mapping could be built
AddMapping(table, mapping) == IF mapping.err # "ok" THEN mapping ELSE _add_mapping(table, mapping.val)

\* UrlMapper.add_static: the table, or the exception raised
add_static(table, resid, urlpattern) ==
  AddMapping(table, StaticMapping(resid, urlpattern_to_components(urlpattern)))

\* add_alias as it would be without the copy: the mapping stored under the
\* existing id is the object that is renamed
add_alias_nocopy(table, new_resid, existing_resid) ==
  IF existing_resid \notin DOMAIN table THEN Raise("RanvierError")
  ELSE _add_mapping([table EXCEPT ![existing_resid].resid = new_resid],
                    [table[existing_resid] EXCEPT !.resid = new_resid])

\* UrlMapper.add_alias
add_alias(table, new_resid, existing_resid) ==
  IF existing_resid \notin DOMAIN table THEN Raise("RanvierError")
  ELSE _add_mapping(table, [table[existing_resid] EXCEPT !.resid = new_resid])

\* A failed mapurl
MapurlError(e) == [err |-> e, url |-> <<>>, params |-> <<>>]

\* The zip of mapurl as it would be if it paired the arguments leaf-to-root
PosArgsReversed(positional, args) ==
  [nm \in {positional[i] : i \in 1..Min(Len(positional), Len(args))} |->
     args[Min(Len(positional), Len(args)) + 1 - PositionOf(positional, nm)]]

\* kwds[posname] = posarg over zip(mapping.positional, args)
PosArgs(positional, args) ==
  [nm \in {positional[i] : i \in 1..Min(Len(positional), Len(args))} |-> args[PositionOf(positional, nm)]]

\* The copy of the defaults, filled from the dict or object when one is given
Filled(vardict, obj) ==
  [nm \in DOMAIN vardict |->
     IF obj.given /\ vardict[nm] = PyNone /\ nm \in DOMAIN obj.d THEN obj.d[nm] ELSE vardict[nm]]

MapurlRendered(params, r) == [err |-> r.err, url |-> r.val, params |-> params]

\* The keywords kw override the defaults; all of them must be valid and no
\* parameter may be left at None.
MapurlParams(mapping, rootloc, kw, params) ==
  IF \E cname \in DOMAIN kw : ~isvalid(mapping, cname) THEN MapurlError("RanvierError")
  ELSE IF \E cname \in DOMAIN params : params[cname] = PyNone THEN MapurlError("RanvierError")
  ELSE MapurlRendered(params, MappingRender(mapping, params, rootloc))

\* mapurl as it would be if the values of the object overrode the keywords
MapurlKeywordsObjectFirst(mapping, rootloc, obj, kw) ==
  MapurlParams(mapping, rootloc, kw, Filled(mapping.vardict, obj) @@ kw)

MapurlKeywords(mapping, rootloc, obj, kw) ==
  MapurlParams(mapping, rootloc, kw, kw @@ Filled(mapping.vardict, obj))

\* mapurl, given the mapping of resid
MapurlMapping(mapping, rootloc, args, obj, kwds) ==
  IF obj.given THEN MapurlKeywords(mapping, rootloc, obj, kwds)
  ELSE IF Len(args) > Len(mapping.positional) THEN MapurlError("RanvierError")
  ELSE IF \E nm \in DOMAIN PosArgs(mapping.positional, args) : nm \in DOMAIN kwds THEN MapurlError("RanvierError")
  ELSE MapurlKeywords(mapping, rootloc, obj, PosArgs(mapping.positional, args) @@ kwds)

\* UrlMapper.mapurl(resid, *args, **kwds); obj is the single positional
\* argument when it is an instance or a dict.
mapurl(table, rootloc, resid, args, obj, kwds) ==
  IF resid \notin DOMAIN table THEN MapurlError("RanvierError")
  ELSE MapurlMapping(table[resid], rootloc, args, obj, kwds)

\* UrlMapper.mapurl_pattern
mapurl_pattern(table, rootloc, resid) ==
  IF resid \notin DOMAIN table THEN Raise("RanvierError")
  ELSE render_pattern(table[resid], rootloc)

\* UrlMapper.match
match(table, rootloc, resid, url) ==
  IF resid \notin DOMAIN table THEN MatchRaise("RanvierError")
  ELSE MatchMapping(table[resid], rootloc, url)

(***************************************************************************)
(* mapper.py: UrlMapper.render and UrlMapper.load.                         *)
(***************************************************************************)
RECURSIVE InsertByKey(_, _)
\* list.sort(key=...) is stable: an element goes after those whose key is
\* not greater than its own.  The elements are [key, m] pairs.
InsertByKey(sorted, e) ==
  IF sorted = <<>> THEN <<e>>
  ELSE IF StrLess(e.key, Head(sorted).key) THEN <<e>> \o sorted
  ELSE <<Head(sorted)>> \o InsertByKey(Tail(sorted), e)

RECURSIVE SortByKey(_, _)
SortByKey(list, acc) ==
  IF list = <<>> THEN acc
  ELSE SortByKey(Tail(list), InsertByKey(acc, Head(list)))

Max(a, b) == IF a > b THEN a ELSE b

RECURSIVE MaxLenOf(_)
\* max(len(x.resid) for x in mappings), 0 for no mappings
MaxLenOf(list) ==
  IF list = <<>> THEN 0 ELSE Max(Len(Head(list).m.resid), MaxLenOf(Tail(list)))

\* '%-Ns : %s' % (resid, pattern)
RenderLine(maxidlen, resid, pattern) ==
  resid \o Spaces(maxidlen - Len(resid)) \o <<" ", ":", " ">> \o pattern

\* mappings.sort(key=sortfun) of the values in their iteration order
SortedMappings(table, order, sort_by_url) ==
  SortByKey([i \in 1..Len(order) |->
               [key |-> IF sort_by_url THEN table[order[i]].urltmpl ELSE table[order[i]].resid,
                m |-> table[order[i]]]], <<>>)

RenderLines(sorted, maxidlen, rootloc) ==
  [i \in 1..Len(sorted) |-> RenderLine(maxidlen, sorted[i].m.resid, render_pattern(sorted[i].m, rootloc).val)]

RenderSorted(sorted, rootloc) == RenderLines(sorted, MaxLenOf(sorted), rootloc)

\* UrlMapper.render; order is the iteration order of the dict of mappings
render(table, order, rootloc, sort_by_url) ==
  RenderSorted(SortedMappings(table, order, sort_by_url), rootloc)

RECURSIVE IdRun(_)
\* length of the longest prefix matching [^:\s]+
IdRun(s) == IF s # <<>> /\ Head(s) \notin {":", " "} THEN 1 + IdRun(Tail(s)) ELSE 0

NoLineMatch == [matched |-> FALSE, resid |-> <<>>, urlpattern |-> <<>>]

\* The groups as they would be if the pattern did not skip the blanks after ':'
LineGroupsUnstripped(s, k, afterid) ==
  IF k = 0 \/ afterid = <<>> \/ Head(afterid) # ":" THEN NoLineMatch
  ELSE [matched |-> TRUE, resid |-> SubSeq(s, 1, k), urlpattern |-> Tail(afterid)]

\* The groups of a stripped line whose id is its first k characters
LineGroups(s, k, afterid) ==
  IF k = 0 \/ afterid = <<>> \/ Head(afterid) # ":" THEN NoLineMatch
  ELSE [matched |-> TRUE, resid |-> SubSeq(s, 1, k), urlpattern |-> StripLeft(Tail(afterid))]

StrippedLine(s) == LineGroups(s, IdRun(s), StripLeft(DropFirst(s, IdRun(s))))

\* inpat_re.match(line.strip()) for '([^:\s]+)\s*:\s*(.*)\s*$'
ParseLine(line) == StrippedLine(Strip(line))

RECURSIVE LoadLines(_, _)
RECURSIVE LoadMatched(_, _, _)
RECURSIVE LoadAdded(_, _)
\* The loop of UrlMapper.load over the lines, from the table built so far.
LoadLines(table, lines) ==
  IF lines = <<>> THEN Ok(table)
  ELSE IF Head(lines) = <<>> THEN LoadLines(table, Tail(lines))
  ELSE LoadMatched(table, lines, ParseLine(Head(lines)))

LoadMatched(table, lines, mo) ==
  IF ~mo.matched THEN Raise("RanvierError")
  ELSE LoadAdded(lines, AddMapping(table, StaticMapping(mo.resid, urlpattern_to_components(mo.urlpattern))))

LoadAdded(lines, added) ==
  IF added.err # "ok" THEN added ELSE LoadLines(added.val, Tail(lines))

\* UrlMapper.load: the table of the new mapper, whose rootloc is None
load(lines) == LoadLines(<<>>, lines)

\* The orders in which a dict with these keys can iterate.
Orders(keys) ==
  {o \in [1..Cardinality(keys) -> keys] : \A i, j \in 1..Cardinality(keys) : i # j => o[i] # o[j]}

\* The lists of lines render can return for this table
Renderings(table, rootloc, sort_by_url) ==
  {render(table, o, rootloc, sort_by_url) : o \in Orders(DOMAIN table)}

(***************************************************************************)
(* Bounds and inputs.                                                      *)
(***************************************************************************)
\* add_static and add_alias are not called once the table has this many entries.
MaxMappings == 3

\* render() is not called on a table of more entries than this.
MaxRendered == 4

NoRootLoc == <<>>

RootLocs == {NoRootLoc, <<"/", "r">>}

StaticIds == {<<"A">>, <<"B", "b">>}

UnknownId == <<"X">>

Patterns ==
  { <<"/", "u", "/", "(", "u", ")", "/", "(", "v", "%", "0", "3", "d", ")", "/">>,
    <<"u", "/", "(", "u", ")">>,
    <<"/", "s">>,
    <<"s">>,
    <<"h", ":", "/", "/", "x", "/", "s", "?", "q">>,
    <<"/", "(", "u", ")", "/", "(", "u", ")">> }

\* No object or dict was passed to mapurl.
NoObj == [given |-> FALSE, d |-> <<>>]

Obj(d) == [given |-> TRUE, d |-> d]

NoKwds == <<>>

Call(args, obj, kwds) == [args |-> args, obj |-> obj, kwds |-> kwds]

\* The arguments of the calls of mapurl: positional scalars, an object or
\* dict to take values from, keywords.
MapurlCalls ==
  { Call(<<>>, NoObj, NoKwds),
    Call(<<PyStr(<<"a">>)>>, NoObj, NoKwds),
    Call(<<PyInt(7)>>, NoObj, NoKwds),
    Call(<<PyStr(<<"a">>), PyInt(7)>>, NoObj, NoKwds),
    Call(<<PyInt(7), PyStr(<<"a">>)>>, NoObj, NoKwds),
    Call(<<PyStr(<<"a">>), PyInt(7), PyStr(<<"a">>)>>, NoObj, NoKwds),
    Call(<<>>, NoObj, (<<"u">> :> PyStr(<<"b">>))),
    Call(<<PyStr(<<"a">>)>>, NoObj, (<<"u">> :> PyStr(<<"b">>))),
    Call(<<>>, NoObj, (<<"c">> :> PyStr(<<"a">>))),
    Call(<<>>, Obj(<<"u">> :> PyStr(<<"a">>)), NoKwds),
    Call(<<>>, Obj(<<"u">> :> PyStr(<<"a">>)), (<<"u">> :> PyStr(<<"b">>))),
    Call(<<>>, Obj((<<"u">> :> PyStr(<<"a">>)) @@ (<<"v">> :> PyInt(7))), (<<"v">> :> PyInt(5))) }

\* The defaults dict of the tests' add_static(resid, urlpattern, defaults)
DefaultsDict == Obj(<<"u">> :> PyStr(<<"a">>))

\* the URL pattern it is passed with
DefaultsPattern == <<"u", "/", "(", "u", ")">>

Urls ==
  { <<"/", "v", "/", "0", "4", "2">>,
    <<"/", "r", "/", "v", "/", "7">>,
    <<"/", "v", "/", "4", "x">>,
    <<"/", "u", "/", "a", "/", "1", "2", "/">>,
    <<"h", ":", "/", "/", "x", "/", "u", "/", "a", "/", "0", "1", "2", "?", "q">>,
    <<"/", "u", "/", "a", "/", "b">> }

LoadInputs ==
  { << <<"A", " ", ":", " ", "/", "s">>, <<>>, <<"B", "b", ":", "u", "/", "(", "u", ")">> >>,
    << <<"A", " ", ":", " ", "/", "s">>, <<"A", " ", ":", " ", "/", "u">> >>,
    << <<"z", "z">> >> }

\* Static patterns for match: a fixed segment with a '.', a float, a format
\* that is neither s, d nor f, a pattern with a host and a query, a string
MatchPatterns ==
  { <<"/", "s", ".", "c">>,
    <<"/", "v", "/", "(", "v", "%", "f", ")">>,
    <<"/", "w", "/", "(", "w", "%", "x", ")">>,
    <<"h", ":", "/", "/", "x", "/", "s", "?", "q">>,
    <<"/", "u", "/", "(", "u", ")">> }

\* The URLs matched against them
MatchUrls ==
  { <<"/", "s", "X", "c">>,
    <<"/", "s", ".", "c">>,
    <<"/", "v", "/", "1", ".", "2", ".", "3">>,
    <<"/", "v", "/", "7">>,
    <<"/", "w", "/", "a">>,
    <<"/", "u", "/", "a">>,
    <<"/", "z">> }

\* The arguments of the calls of mapurl whose URL is matched
MatchCalls ==
  { Call(<<>>, NoObj, NoKwds), Call(<<PyStr(<<"a">>)>>, NoObj, NoKwds), Call(<<PyInt(7)>>, NoObj, NoKwds) }

\* The URIs requested of handle_request besides those mapurl returned
RequestUris ==
  { <<"/", "h">>,
    <<"/", "s", "/">>,
    <<"/", "r", "/", "u", "/", "a", "/", "b">>,
    <<"/", "z">>,
    <<"/">> }

(***************************************************************************)
(* context.py: PathLocator.                                                *)
(***************************************************************************)
\* A locator that keeps the empty segments of the URI
from_uri_unfiltered(uri, rootloc) ==
  [rootloc |-> rootloc,
   path |-> Split(uri, "/"),
   index |-> 0,
   trailing |-> EndsWith(uri, <<"/">>)]

\* PathLocator.from_uri
from_uri(uri, rootloc) ==
  [rootloc |-> rootloc,
   path |-> SelectSeq(Split(uri, "/"), LAMBDA x : x # <<>>),
   index |-> 0,
   trailing |-> EndsWith(uri, <<"/">>)]

\* PathLocator.current
current(locator) == locator.path[locator.index + 1]

\* A step that consumes the segment list where next moves the index
next_consuming(locator) == [locator EXCEPT !.path = Tail(@)]

\* PathLocator.next
next(locator) == [locator EXCEPT !.index = @ + 1]

\* PathLocator.isleaf
isleaf(locator) == locator.index = Len(locator.path)

\* os.path.join(a, b) for a relative b
PathJoin(a, b) == IF EndsWith(a, <<"/">>) THEN a \o b ELSE a \o <<"/">> \o b

\* PathLocator.uri()
LocatorUri(locator) ==
  (IF locator.path # <<>>
   THEN PathJoin(IF locator.rootloc # <<>> THEN locator.rootloc ELSE <<"/">>, Join(locator.path, <<"/">>))
   ELSE locator.rootloc)
  \o (IF locator.trailing THEN <<"/">> ELSE <<>>)

(***************************************************************************)
(* Dispatch: what a request ends with.                                     *)
(*   kind     "handled" | "notfound" | "redirect" | "raise"                *)
(*   handler  the resource that served the request at its leaf             *)
(*   target   the Location of a redirect                                   *)
(*   slots    the values the variable-consuming resources stored           *)
(***************************************************************************)
Handled(res, locator, slots) ==
  [kind |-> "handled", handler |-> res, atleaf |-> isleaf(locator), target |-> <<>>, slots |-> slots, err |-> "ok"]

\* ResponseProxy.errorNotFound
errorNotFound == [kind |-> "notfound", handler |-> NoRes, atleaf |-> FALSE, target |-> <<>>, slots |-> <<>>, err |-> "ok"]

\* ResponseProxy.redirect
redirect(target) ==
  [kind |-> "redirect", handler |-> NoRes, atleaf |-> FALSE, target |-> target, slots |-> <<>>, err |-> "ok"]

Raised(e) == [kind |-> "raise", handler |-> NoRes, atleaf |-> FALSE, target |-> <<>>, slots |-> <<>>, err |-> e]

\* FolderBase.__init__: no tree here passes _training_slash
redirect_leaf_as_dir(node) == TRUE

\* HandlerContext.redirect: raise InternalRedirect(uri, args)
InternalRedirect(uri) ==
  [kind |-> "internal_redirect", handler |-> NoRes, atleaf |-> FALSE, target |-> uri, slots |-> <<>>,
   err |-> "InternalRedirect"]

\* self.delegate(child, ctxt): control passes to another resource
Delegate(n, locator, slots) ==
  [kind |-> "delegate", handler |-> NoRes, atleaf |-> FALSE, target |-> <<>>, slots |-> slots, err |-> "ok",
   node |-> n, locator |-> locator]

\* LeafResource.handle
LeafHandle(t, n, locator, slots) ==
  IF ~isleaf(locator) THEN errorNotFound ELSE Handled(Res(t, n), locator, slots)

\* A resource that consumes one segment into its slot and serves as a leaf
VarResourceHandle(t, n, locator, slots) ==
  IF isleaf(locator) THEN errorNotFound
  ELSE LeafHandle(t, n, next(locator), slots @@ (Trees[t][n].varname :> current(locator)))

\* InternalRedirectTest.handle: ctxt.redirect(ctxt.mapurl(target))
InternalRedirectTestHandle(table, rootloc, target) ==
  IF mapurl(table, rootloc, target, <<>>, NoObj, NoKwds).err # "ok" THEN Raised("RanvierError")
  ELSE InternalRedirect(mapurl(table, rootloc, target, <<>>, NoObj, NoKwds).url)

\* DelegaterResource.handle returned True: the local step signalled a failure
ReturnedTrue == [kind |-> "stopped", handler |-> NoRes, atleaf |-> FALSE, target |-> <<>>, slots |-> <<>>, err |-> "ok"]

RECURSIVE Advanced(_, _)
\* RemoveBase.handle_this: locator.next() count times
Advanced(locator, count) == IF count = 0 THEN locator ELSE Advanced(next(locator), count - 1)

\* handle_this of a delegator: whether it returned a value, and the locator
\* it leaves
handle_this(node, locator) ==
  IF node.cls = "RemoveBase" THEN [rcode |-> FALSE, locator |-> Advanced(locator, node.count)]
  ELSE [rcode |-> node.rcode, locator |-> locator]

\* The rest of DelegaterResource.handle once handle_this returned
Forwarded(node, this, slots) ==
  IF this.rcode THEN ReturnedTrue ELSE Delegate(node.next, this.locator, slots)

\* DelegaterResource.handle as it would be if it forwarded whatever the
\* local step returned
DelegaterHandleAlways(t, n, locator, slots) ==
  Delegate(Trees[t][n].next, handle_this(Trees[t][n], locator).locator, slots)

\* DelegaterResource.handle
DelegaterHandle(t, n, locator, slots) ==
  Forwarded(Trees[t][n], handle_this(Trees[t][n], locator), slots)

\* CompVarResource.handle with the handle_component of the base class, whose
\* body reads the name 'comp' that is not defined there
CompVarHandle(t, n, locator, slots) ==
  IF isleaf(locator) THEN errorNotFound
  ELSE IF locator.index >= Len(locator.path) THEN Raised("IndexError")
  ELSE Raised("NameError")

\* handle_default as it would be if a default name without a child were
\* answered like a folder without a default
FolderHandleDefaultLenient(t, n, locator, slots, default) ==
  IF Trees[t][n].cls = "FolderWithMenu" THEN Handled(Res(t, n), locator, slots)
  ELSE IF default.kind \in {"name", "none"} THEN errorNotFound
  ELSE Delegate(default.node, locator, slots)

\* Folder.handle_default with getdefault, FolderWithMenu.handle_default
FolderHandleDefault(t, n, locator, slots, default) ==
  IF Trees[t][n].cls = "FolderWithMenu" THEN Handled(Res(t, n), locator, slots)
  ELSE IF default.kind = "name" THEN Raised("RanvierError")
  ELSE IF default.kind = "none" THEN errorNotFound
  ELSE Delegate(default.node, locator, slots)

\* FolderBase.handle_base as it would be without the redirect of a folder
\* requested without a trailing slash
FolderHandleBaseNoRedirect(t, n, locator, slots) ==
  IF isleaf(locator)
  THEN FolderHandleDefault(t, n, locator, slots, FolderDefault(Trees[t][n]))
  ELSE IF locator.index >= Len(locator.path) THEN Raised("IndexError")
  ELSE IF ~HasChildNamed(Trees[t][n].children, current(locator)) THEN errorNotFound
  ELSE Delegate(ChildNamed(Trees[t][n].children, current(locator)).node, next(locator), slots)

\* FolderBase.handle_base as it would be if it delegated to the child
\* without advancing the locator
FolderHandleBaseNoAdvance(t, n, locator, slots) ==
  IF isleaf(locator)
  THEN IF ~locator.trailing /\ redirect_leaf_as_dir(Trees[t][n])
       THEN redirect(LocatorUri(locator) \o <<"/">>)
       ELSE FolderHandleDefault(t, n, locator, slots, FolderDefault(Trees[t][n]))
  ELSE IF locator.index >= Len(locator.path) THEN Raised("IndexError")
  ELSE IF ~HasChildNamed(Trees[t][n].children, current(locator)) THEN errorNotFound
  ELSE Delegate(ChildNamed(Trees[t][n].children, current(locator)).node, locator, slots)

\* FolderBase.handle_base
FolderHandleBase(t, n, locator, slots) ==
  IF isleaf(locator)
  THEN IF ~locator.trailing /\ redirect_leaf_as_dir(Trees[t][n])
       THEN redirect(LocatorUri(locator) \o <<"/">>)
       ELSE FolderHandleDefault(t, n, locator, slots, FolderDefault(Trees[t][n]))
  ELSE IF locator.index >= Len(locator.path) THEN Raised("IndexError")
  ELSE IF ~HasChildNamed(Trees[t][n].children, current(locator)) THEN errorNotFound
  ELSE Delegate(ChildNamed(Trees[t][n].children, current(locator)).node, next(locator), slots)

\* Resource.handle_base of the resource n: what it answers, or the resource
\* it delegates to
handle_base(table, t, n, locator, slots) ==
  IF Trees[t][n].cls \in {"Folder", "FolderWithMenu"} THEN FolderHandleBase(t, n, locator, slots)
  ELSE IF Trees[t][n].cls = "VarResource" THEN VarResourceHandle(t, n, locator, slots)
  ELSE IF Trees[t][n].cls = "InternalRedirectTest"
  THEN InternalRedirectTestHandle(table, locator.rootloc, Trees[t][n].target)
  ELSE IF Trees[t][n].cls \in {"Delegater", "RemoveBase"} THEN DelegaterHandle(t, n, locator, slots)
  ELSE IF Trees[t][n].cls = "CompVar" THEN CompVarHandle(t, n, locator, slots)
  ELSE LeafHandle(t, n, locator, slots)

RECURSIVE delegate(_, _, _, _, _)
\* The end of a chain of delegations
Delegated(table, t, r) ==
  IF r.kind = "delegate" THEN delegate(table, t, r.node, r.locator, r.slots) ELSE r

\* Resource.delegate: control passes to the handle_base of the resource
delegate(table, t, n, locator, slots) == Delegated(table, t, handle_base(table, t, n, locator, slots))

\* One iteration of UrlMapper.handle_request
handle_request(table, root, rootloc, uri) ==
  IF root = 0 THEN Raised("RanvierError")
  ELSE IF rootloc # <<>> /\ ~StartsWith(uri, rootloc) THEN Raised("RanvierError")
  ELSE delegate(table, root, 1, from_uri(DropFirst(uri, Len(rootloc)), rootloc), <<>>)

(***************************************************************************)
(* UrlMapper.handle_request step by step.  A request in progress is a      *)
(* record:                                                                 *)
(*   pc             "begin", "delegate", "end" or "done"                   *)
(*   uri            the URI of the current iteration of the loop           *)
(*   redirect_data  the InternalRedirect that started it, if any           *)
(*   node, locator, slots   the resource in control and its context        *)
(*   response       what the iteration ended with                          *)
(*   iterations, redirects  the iterations begun, the redirects caught     *)
(*   open           the begin() calls of the reporter not yet followed by  *)
(*                  an end()                                               *)
(***************************************************************************)
\* The redirects counted one by one; a request that redirects more goes on,
\* counted as this many.
MaxRedirects == 3

NoResponse == [kind |-> "none", handler |-> NoRes, atleaf |-> FALSE, target |-> <<>>, slots |-> <<>>, err |-> "ok"]

NoRedirect == [given |-> FALSE, uri |-> <<>>]

\* handle_request up to the loop: no root resource raises at once
Requested(root, rootloc, uri) ==
  [op |-> "dispatch", resid |-> <<>>, err |-> IF root = 0 THEN "RanvierError" ELSE "ok",
   pc |-> IF root = 0 THEN "done" ELSE "begin", uri |-> uri, redirect_data |-> NoRedirect,
   node |-> 0, locator |-> from_uri(<<>>, rootloc), slots |-> <<>>, response |-> NoResponse,
   iterations |-> 0, redirects |-> 0, open |-> 0]

\* The top of the loop: the reporter begins, the rootloc is checked and
\* removed, a context is made for the root resource.
Begun(req, rootloc) ==
  IF rootloc # <<>> /\ ~StartsWith(req.uri, rootloc)
  THEN [req EXCEPT !.open = @ + 1, !.iterations = Min(@ + 1, MaxRedirects + 1),
                   !.pc = "done", !.err = "RanvierError"]
  ELSE [req EXCEPT !.open = @ + 1, !.iterations = Min(@ + 1, MaxRedirects + 1),
                   !.pc = "delegate", !.node = 1, !.slots = <<>>, !.response = NoResponse,
                   !.locator = from_uri(DropFirst(req.uri, Len(rootloc)), rootloc)]

\* The resource in control has run its handle_base: r is what it answered
\* or the resource it delegates to.
Stepped(req, r) ==
  IF r.kind = "delegate" THEN [req EXCEPT !.node = r.node, !.locator = r.locator, !.slots = r.slots]
  ELSE [req EXCEPT !.response = r, !.pc = "end"]

\* The bottom of the loop as it would be if a redirect kept the URI
EndedSameUri(req) ==
  IF req.response.kind = "internal_redirect"
  THEN [req EXCEPT !.open = @ - 1, !.redirects = Min(@ + 1, MaxRedirects), !.pc = "begin",
                   !.redirect_data = [given |-> TRUE, uri |-> req.response.target]]
  ELSE [req EXCEPT !.open = @ - 1, !.pc = "done", !.err = req.response.err]

\* The bottom of the loop: an InternalRedirect is caught and the loop goes
\* round with its URI, anything else leaves the loop; the reporter ends.
Ended(req) ==
  IF req.response.kind = "internal_redirect"
  THEN [req EXCEPT !.open = @ - 1, !.redirects = Min(@ + 1, MaxRedirects), !.pc = "begin",
                   !.uri = req.response.target,
                   !.redirect_data = [given |-> TRUE, uri |-> req.response.target]]
  ELSE [req EXCEPT !.open = @ - 1, !.pc = "done", !.err = req.response.err]

\* The URIs requested of the redirect tree, with and without the rootloc
DispatchUris ==
  { <<"/", "b">>, <<"/", "l">>, <<"/", "f", "/", "g">>, <<"/", "f", "/", "z">>, <<"/">>,
    <<"/", "u", "/", "a">>, <<"/", "h", "/", "x">>,
    <<"/", "r", "/", "b">>, <<"/", "r", "/", "l">>, <<"/", "r", "/", "f", "/", "g">>, <<"/", "r", "/">>,
    <<"/", "s">>, <<"/", "f">>, <<"/", "f", "/">>, <<"/", "r">>, <<"/", "r", "/", "s">>,
    <<"/", "d">>, <<"/", "e">>, <<"/", "c", "/", "a">>, <<"/", "c">>, <<"/", "m">>, <<"/", "m", "/", "a", "/", "b">>,
    <<"/", "m", "/", "a", "/", "b", "/", "k">>, <<"/", "r", "/", "m">>, <<"/", "r", "/", "e">>,
    <<"/", "/", "f", "/", "/", "g", "/">>, <<"/", "/">>, <<>> }

(***************************************************************************)
(* State.                                                                  *)
(*   rootloc        UrlMapper.rootloc, NoRootLoc for None                  *)
(*   root_resource  UrlMapper.root_resource: an index in Trees, 0 for None *)
(*   mappings       UrlMapper.mappings                                     *)
(*   last           the last call made on the mapper and what it returned  *)
(***************************************************************************)
VARIABLES rootloc, root_resource, mappings, last, render_trailing

vars == <<rootloc, root_resource, mappings, last, render_trailing>>

\* UrlMapper.__init__ without a root resource
Init ==
  /\ rootloc \in RootLocs
  /\ root_resource = 0
  /\ mappings = <<>>
  /\ last = [op |-> "init", resid |-> <<>>, err |-> "ok"]
  /\ render_trailing = TRUE

\* UrlMapper.__init__ with either value of render_trailing
InitTrailing ==
  /\ rootloc \in RootLocs
  /\ root_resource = 0
  /\ mappings = <<>>
  /\ last = [op |-> "init", resid |-> <<>>, err |-> "ok"]
  /\ render_trailing \in BOOLEAN

\* The calls that set the mapper up; the others only read it.
SetupOps == {"init", "initialize", "add_static", "add_alias"}

\* A call that reads the mapper leaves it as the setup calls left it, and so
\* does an add_static or add_alias that raises: the calls are taken from the
\* states the other setup calls reach.  An initialize that raises is among
\* them, for it keeps the mappings it added before it raised.
AfterSetup == last.op \in SetupOps /\ (last.err = "ok" \/ last.op = "initialize")

Initialize(t) ==
  /\ AfterSetup
  /\ Cardinality(DOMAIN mappings) < MaxMappings
  /\ root_resource' = t
  /\ \E r \in {initialize(mappings, t)} :
       /\ mappings' = r.val
       /\ last' = [op |-> "initialize", resid |-> <<>>, err |-> r.err, tree |-> t]
  /\ UNCHANGED <<rootloc, render_trailing>>

\* add_static(resid, urlpattern), or with the defaults dict the tests pass as
\* a third argument, which the signature does not take.
AddStatic(resid, urlpattern, defaults) ==
  /\ AfterSetup
  /\ resid \in DOMAIN mappings \/ Cardinality(DOMAIN mappings) < MaxMappings
  /\ \E r \in {IF defaults.given THEN Raise("TypeError") ELSE add_static(mappings, resid, urlpattern)} :
       /\ mappings' = IF r.err = "ok" THEN r.val ELSE mappings
       /\ last' = [op |-> "add_static", resid |-> resid, err |-> r.err, urlpattern |-> urlpattern,
                   defaults |-> defaults, present |-> resid \in DOMAIN mappings]
  /\ UNCHANGED <<rootloc, root_resource, render_trailing>>

AddAlias(new_resid, existing_resid) ==
  /\ AfterSetup
  /\ new_resid \in DOMAIN mappings \/ Cardinality(DOMAIN mappings) < MaxMappings
  /\ \E r \in {add_alias(mappings, new_resid, existing_resid)} :
       /\ mappings' = IF r.err = "ok" THEN r.val ELSE mappings
       /\ last' = [op |-> "add_alias", resid |-> new_resid, err |-> r.err, existing |-> existing_resid,
                   present |-> new_resid \in DOMAIN mappings]
  /\ UNCHANGED <<rootloc, root_resource, render_trailing>>

Mapurl(resid, args, obj, kwds) ==
  /\ AfterSetup
  /\ \E r \in {mapurl(mappings, rootloc, resid, args, obj, kwds)} :
       last' = [op |-> "mapurl", resid |-> resid, err |-> r.err, args |-> args, obj |-> obj,
                kwds |-> kwds, url |-> r.url, params |-> r.params]
  /\ UNCHANGED <<rootloc, root_resource, mappings, render_trailing>>

Match(resid, url) ==
  /\ AfterSetup
  /\ \E r \in {match(mappings, rootloc, resid, url)} :
       last' = [op |-> "match", resid |-> resid, err |-> r.err, url |-> url, none |-> r.none,
                dict |-> r.dict, rendered |-> FALSE, params |-> <<>>]
  /\ UNCHANGED <<rootloc, root_resource, mappings, render_trailing>>

\* match(resid, mapurl(resid, ...)), the URL being the one mapurl returned
MatchRendered ==
  /\ last.op = "mapurl" /\ last.err = "ok"
  /\ \E r \in {match(mappings, rootloc, last.resid, last.url)} :
       last' = [op |-> "match", resid |-> last.resid, err |-> r.err, url |-> last.url, none |-> r.none,
                dict |-> r.dict, rendered |-> TRUE, params |-> last.params]
  /\ UNCHANGED <<rootloc, root_resource, mappings, render_trailing>>

\* UrlMapper.load(lines)
Load(lines) ==
  /\ AfterSetup
  /\ \E r \in {load(lines)} :
       last' = [op |-> "load", resid |-> <<>>, err |-> r.err, lines |-> lines, loaded |-> r.val,
                from_render |-> FALSE, sort_by_url |-> TRUE, relines |-> <<>>]
  /\ UNCHANGED <<rootloc, root_resource, mappings, render_trailing>>

\* The lines the mapper loaded from these lines can render in its turn
Rerenderings(r, sort_by_url) ==
  IF r.err = "ok" THEN Renderings(r.val, NoRootLoc, sort_by_url) ELSE {<<>>}

\* UrlMapper.load(m.render()) and the render() of the mapper it returns.  A
\* dict iterates in an order of its own: lines is what render() returns under
\* one of them, relines what the loaded mapper's render() returns under one.
RenderLoad(sort_by_url) ==
  /\ AfterSetup
  /\ Cardinality(DOMAIN mappings) <= MaxRendered
  /\ \E lines \in Renderings(mappings, rootloc, sort_by_url) :
       \E r \in {load(lines)} :
         \E relines \in Rerenderings(r, sort_by_url) :
           last' = [op |-> "load", resid |-> <<>>, err |-> r.err, lines |-> lines, loaded |-> r.val,
                    from_render |-> TRUE, sort_by_url |-> sort_by_url, relines |-> relines]
  /\ UNCHANGED <<rootloc, root_resource, mappings, render_trailing>>

\* handle_request(method, uri, args, response_proxy)
HandleRequest(uri) ==
  /\ AfterSetup
  /\ \E r \in {handle_request(mappings, root_resource, rootloc, uri)} :
       last' = [op |-> "handle_request", resid |-> <<>>, err |-> r.err, uri |-> uri, mapped |-> FALSE,
                response |-> r]
  /\ UNCHANGED <<rootloc, root_resource, mappings, render_trailing>>

\* handle_request of the URL mapurl returned for a resource of the tree
HandleMapped ==
  /\ last.op = "mapurl" /\ last.err = "ok"
  /\ mappings[last.resid].resource.tree = root_resource
  /\ \E r \in {handle_request(mappings, root_resource, rootloc, last.url)} :
       last' = [op |-> "handle_request", resid |-> last.resid, err |-> r.err, uri |-> last.url, mapped |-> TRUE,
                response |-> r]
  /\ UNCHANGED <<rootloc, root_resource, mappings, render_trailing>>

\* handle_request(method, uri, args, response_proxy) is called
StartRequest(uri) ==
  /\ AfterSetup
  /\ last' = Requested(root_resource, rootloc, uri)
  /\ UNCHANGED <<rootloc, root_resource, mappings, render_trailing>>

\* One pass through the top of the loop of handle_request
BeginIteration ==
  /\ last.op = "dispatch" /\ last.pc = "begin"
  /\ last' = Begun(last, rootloc)
  /\ UNCHANGED <<rootloc, root_resource, mappings, render_trailing>>

\* The resource in control handles the request or delegates it
HandleBaseStep ==
  /\ last.op = "dispatch" /\ last.pc = "delegate"
  /\ last' = Stepped(last, handle_base(mappings, root_resource, last.node, last.locator, last.slots))
  /\ UNCHANGED <<rootloc, root_resource, mappings, render_trailing>>

\* One pass through the bottom of the loop of handle_request
EndIteration ==
  /\ last.op = "dispatch" /\ last.pc = "end"
  /\ last' = Ended(last)
  /\ UNCHANGED <<rootloc, root_resource, mappings, render_trailing>>

\* The calls that build the table.
NextSetup ==
  \/ \E t \in TableTrees : Initialize(t)
  \/ \E resid \in StaticIds, urlpattern \in Patterns : AddStatic(resid, urlpattern, NoObj)
  \/ \E resid \in StaticIds : AddStatic(resid, DefaultsPattern, DefaultsDict)
  \/ \E new_resid \in StaticIds, existing_resid \in DOMAIN mappings \cup {UnknownId} :
       AddAlias(new_resid, existing_resid)

\* Building the table and mapping backward: mapurl and match.
Next ==
  \/ NextSetup
  \/ \E resid \in DOMAIN mappings \cup {UnknownId}, c \in MapurlCalls : Mapurl(resid, c.args, c.obj, c.kwds)
  \/ \E resid \in DOMAIN mappings \cup {UnknownId}, url \in Urls : Match(resid, url)
  \/ MatchRendered

Spec == Init /\ [][Next]_vars

\* Building the table and serializing it: render and load.
NextReload ==
  \/ NextSetup
  \/ \E lines \in LoadInputs : Load(lines)
  \/ \E sort_by_url \in BOOLEAN : RenderLoad(sort_by_url)

SpecReload == Init /\ [][NextReload]_vars

\* Building the table from trees and mapping forward: handle_request.
NextDispatch ==
  \/ \E t \in TableTrees : Initialize(t)
  \/ \E resid \in DOMAIN mappings, c \in MapurlCalls : Mapurl(resid, c.args, c.obj, c.kwds)
  \/ \E uri \in RequestUris : HandleRequest(uri)
  \/ HandleMapped

SpecDispatch == Init /\ [][NextDispatch]_vars

\* Requests followed through the loop of handle_request, on every tree.
NextRequest ==
  \/ \E t \in 1..Len(Trees) : Initialize(t)
  \/ \E uri \in DispatchUris \cup RequestUris : StartRequest(uri)
  \/ BeginIteration
  \/ HandleBaseStep
  \/ EndIteration

SpecRequest == Init /\ [][NextRequest]_vars

\* Building the table from every tree and from patterns, and mapping
\* backward, for a mapper constructed with either value of render_trailing.
NextBuild ==
  \/ \E t \in BuildTrees : Initialize(t)
  \/ \E resid \in StaticIds, urlpattern \in Patterns : AddStatic(resid, urlpattern, NoObj)
  \/ \E resid \in DOMAIN mappings \cup {UnknownId}, c \in MapurlCalls : Mapurl(resid, c.args, c.obj, c.kwds)

SpecBuild == InitTrailing /\ [][NextBuild]_vars

\* Registering mappings from a tree and from patterns, and matching URLs
\* against them.
NextMatch ==
  \/ Initialize(1)
  \/ \E resid \in StaticIds, urlpattern \in MatchPatterns : AddStatic(resid, urlpattern, NoObj)
  \/ \E resid \in DOMAIN mappings, c \in MatchCalls : Mapurl(resid, c.args, c.obj, c.kwds)
  \/ \E resid \in DOMAIN mappings, url \in MatchUrls : Match(resid, url)
  \/ MatchRendered

SpecMatch == Init /\ [][NextMatch]_vars

(***************************************************************************)
(* The properties checked of the mapper.                                   *)
(***************************************************************************)
\* The mapping the last call was about
LastMapping == mappings[last.resid]

\* The id of the last call is one initialize took from a resource tree
FromTree == last.resid \in DOMAIN mappings /\ LastMapping.resource # NoRes

\* C1: the URL mapurl returns for an id that initialize registered from the
\* tree is resolved by handle_request, on the same tree and with the same
\* rootloc, to the resource that owns the id: the dispatch ends on that
\* resource with the locator at a leaf, and NotFound is not signalled.
C1_MappedUrlResolves ==
  (last.op = "handle_request" /\ last.mapped)
    => /\ last.response.kind = "handled"
       /\ last.response.handler = LastMapping.resource
       /\ last.response.atleaf

\* A value a variable of this format can take in a URL: a non-negative
\* integer for a %d variable, a non-empty string free of '/', '?' and '#'
\* for a plain or %s variable.
ValidValue(format, v) ==
  IF IsConv(format, "d") THEN v.t = "int" /\ v.n >= 0
  ELSE v.t = "str" /\ v.s # <<>> /\ \A i \in 1..Len(v.s) : v.s[i] \notin {"/", "?", "#"}

ValidParams(mapping, params) ==
  /\ DOMAIN params = DOMAIN mapping.vardict
  /\ \A nm \in DOMAIN params : ValidValue(mapping.formats[nm], params[nm])

\* C2: for an id enumerated from a tree and valid values of its positional
\* variables, plain or formatted, match(id, mapurl(id, values)) is never
\* None: it is the dict that maps each variable to the value rendered.
C2_RoundTrip ==
  (last.op = "match" /\ last.rendered /\ FromTree /\ ValidParams(LastMapping, last.params))
    => /\ last.err = "ok"
       /\ ~last.none
       /\ DOMAIN last.dict = DOMAIN last.params
       /\ \A nm \in DOMAIN last.params : last.dict[nm] = last.params[nm]

\* A round trip through a formatted variable, with a root location
C2_Witness ==
  /\ last.op = "match" /\ last.rendered /\ FromTree /\ ValidParams(LastMapping, last.params)
  /\ rootloc # NoRootLoc
  /\ \E nm \in DOMAIN last.params : IsConv(LastMapping.formats[nm], "d") /\ last.dict[nm] = PyInt(7)

\* The ids lines carry, in order, for the lines inpat_re matches
LineIds(lines) ==
  [i \in 1..Len(lines) |-> IF lines[i] # <<>> /\ ParseLine(lines[i]).matched THEN ParseLine(lines[i]).resid ELSE <<>>]

DuplicateIds(lines) ==
  \E i, j \in 1..Len(lines) : i < j /\ LineIds(lines)[i] # <<>> /\ LineIds(lines)[i] = LineIds(lines)[j]

\* The ids of the paths the enumerator finds in tree t
TreeIds(t) ==
  IF visit_root(Trees[t]).err # "ok" THEN {}
  ELSE {getresid(Trees[t][visit_root(Trees[t]).val[i][1]]) : i \in 1..Len(visit_root(Trees[t]).val)}

\* A call add_static(resid, urlpattern) or add_alias(new_resid, existing_resid)
Registers == last.op = "add_alias" \/ (last.op = "add_static" /\ ~last.defaults.given)

\* C3: the table holds one mapping per resource-id along any sequence of
\* initialize, add_static, add_alias and load.  Registering under an id that
\* is present raises RanvierError (add_static, add_alias, a load of lines that
\* repeat an id; an initialize that returns added no id that was present),
\* and no call replaces or removes the mapping stored under an id.
C3_NoOverwrite ==
  /\ []((Registers /\ last.present) => last.err = "RanvierError")
  /\ []((last.op = "load" /\ DuplicateIds(last.lines)) => last.err = "RanvierError")
  /\ [][(last'.op = "initialize" /\ last'.err = "ok") => TreeIds(last'.tree) \cap DOMAIN mappings = {}]_vars
  /\ [][\A id \in DOMAIN mappings : id \in DOMAIN mappings' /\ mappings'[id] = mappings[id]]_vars

\* add_static under an id that holds another pattern was refused
C3_Witness ==
  /\ last.op = "add_static" /\ ~last.defaults.given /\ last.present
  /\ last.err = "RanvierError"
  /\ render_pattern(LastMapping, rootloc).val # UrlUnsplit(<<>>, <<>>, last.urlpattern, <<>>, <<>>)

\* The resource declared branches to the enumerator
HasBranches(res) == enum_targets(Trees[res.tree], res.node, EnumVisitor(res.node)).val.branchs # <<>>

\* C4: mapurl returns a URL whose path ends in '/' for a mapping initialize
\* built from a node that declared itself a leaf and has branches, and appends
\* no slash for one built from a leaf without branches.
C4_TrailingSlashIffBranches ==
  (last.op = "mapurl" /\ last.err = "ok" /\ FromTree)
    => (EndsWith(UrlSplit(last.url).path, <<"/">>) <=> HasBranches(LastMapping.resource))

\* mapurl(id) without positional, object or keyword arguments
NoArguments == last.op = "mapurl" /\ last.args = <<>> /\ ~last.obj.given /\ last.kwds = NoKwds

\* C5: mapurl(id) without arguments raises RanvierError when the mapping has
\* a positional variable without a default, and returns a URL when every
\* positional variable has one, as for a static mapping registered with a
\* defaults dict.
C5_MissingOrDefault ==
  /\ (NoArguments /\ last.resid \in DOMAIN mappings /\ \E nm \in DOMAIN LastMapping.vardict : LastMapping.vardict[nm] = PyNone)
       => last.err = "RanvierError"
  /\ (last.op = "add_static" /\ last.defaults.given /\ ~last.present)
       => /\ last.err = "ok"
          /\ mapurl(mappings, rootloc, last.resid, <<>>, NoObj, NoKwds).err = "ok"

\* The components of the mapping that are variables of an integer format
DigitVars(mapping) ==
  {i \in 1..Len(mapping.components) : mapping.components[i].isvar /\ IsConv(mapping.components[i].format, "d")}

\* The segment of the path of url that stands at component i of the mapping
SegmentOf(mapping, url, i) ==
  Split(UrlSplit(url).path, "/")[Len(Split(IF mapping.absolute THEN <<>> ELSE rootloc, "/")) + i]

IsDigits(s) == s # <<>> /\ \A k \in 1..Len(s) : IsDigit(s[k])

\* C6: match succeeds for a mapping with a variable of an integer format
\* only when the segment of the path at that variable is a non-empty run of
\* decimal digits (any other segment yields None), and the value it returns
\* for the variable is the integer the digits denote, not a string.
C6_IntegerFormat ==
  (last.op = "match" /\ last.err = "ok" /\ ~last.none)
    => \A i \in DigitVars(LastMapping) :
         /\ IsDigits(SegmentOf(LastMapping, last.url, i))
         /\ last.dict[LastMapping.components[i].name] = PyInt(StrToInt(SegmentOf(LastMapping, last.url, i)))

\* A segment of digits with leading zeros was matched and returned as an integer
C6_Witness ==
  /\ last.op = "match" /\ last.err = "ok" /\ ~last.none
  /\ \E i \in DigitVars(LastMapping) :
       /\ Head(SegmentOf(LastMapping, last.url, i)) = "0"
       /\ last.dict[LastMapping.components[i].name] = PyInt(42)

\* The last call was UrlMapper.load(m.render()) for the mapper m
Reloaded == last.op = "load" /\ last.from_render

\* C7: UrlMapper.load(m.render()) holds exactly the resource-ids of m, and
\* mapurl_pattern gives for each id what it gives on m, whatever the rootloc
\* of m and whether the entries come from a tree, add_static (external or
\* not) or add_alias.  The ids are free of ':' and blanks.
C7_ReloadSamePatterns ==
  Reloaded
    => /\ last.err = "ok"
       /\ DOMAIN last.loaded = DOMAIN mappings
       /\ \A id \in DOMAIN mappings :
            mapurl_pattern(last.loaded, NoRootLoc, id) = mapurl_pattern(mappings, rootloc, id)

\* A mapper with a root location was reloaded that held an entry from a
\* tree, an external static entry and an alias.
C7_Witness ==
  /\ Reloaded /\ last.err = "ok" /\ rootloc # NoRootLoc
  /\ \E id \in DOMAIN mappings : mappings[id].resource # NoRes
  /\ \E id \in DOMAIN mappings : mappings[id].prefix[1] # <<>>
  /\ \E id1, id2 \in DOMAIN mappings : id1 # id2 /\ mappings[id1].urltmpl = mappings[id2].urltmpl

\* C8: UrlMapper.load(m.render()).render() is the list of lines m.render()
\* returned, in the same order, also when ids share a URL template and when
\* m has a rootloc together with absolute static mappings.
C8_RenderFixedPoint ==
  Reloaded => (last.err = "ok" /\ last.relines = last.lines)

\* mapurl(id, a1..an) with scalar positional arguments
Positional == last.op = "mapurl" /\ last.resid \in DOMAIN mappings /\ ~last.obj.given

\* C9: mapurl(id, a1..an) raises RanvierError when n exceeds the number of
\* positional variables of the mapping (any argument at all for a mapping
\* without variables); when it returns, the i-th argument is the value of
\* the i-th variable in root-to-leaf order.
C9_PositionalArgs ==
  Positional
    => /\ Len(last.args) > Len(LastMapping.positional) => last.err = "RanvierError"
       /\ last.err = "ok" =>
            \A i \in 1..Len(last.args) : last.params[LastMapping.positional[i]] = last.args[i]

\* Two arguments of different types filled two variables
C9_Witness ==
  /\ Positional /\ last.err = "ok" /\ Len(last.args) = 2
  /\ last.args[1] # last.args[2]
  /\ last.params[LastMapping.positional[2]] = last.args[2]

\* The optional parameters declared on the path to the resource
DeclaredOptParams(res) ==
  { p.name : p \in UNION { {path[3].l[k] : k \in 1..Len(path[3].l)} :
                           path \in {q \in {visit_root(Trees[res.tree]).val[i] :
                                              i \in 1..Len(visit_root(Trees[res.tree]).val)} : q[1] = res.node} } }

\* The names mapurl is to accept as keywords for the last mapping
ValidKeywords == {LastMapping.positional[i] : i \in 1..Len(LastMapping.positional)}
                   \cup DeclaredOptParams(LastMapping.resource)

\* C10: mapurl accepts a keyword iff it names a positional variable of the
\* mapping or an optional parameter declared on the path to the resource:
\* another name raises RanvierError, and the name of a declared optional
\* parameter does not make the call fail.
C10_KeywordValidity ==
  (last.op = "mapurl" /\ FromTree /\ ~last.obj.given /\ last.args = <<>>)
    => /\ (\E k \in DOMAIN last.kwds : k \notin ValidKeywords) => last.err = "RanvierError"
       /\ ((\A k \in DOMAIN last.kwds : k \in ValidKeywords)
           /\ (\A nm \in DOMAIN LastMapping.vardict : nm \in DOMAIN last.kwds))
            => last.err = "ok"

\* mapurl(id, obj, **kwds) with a single dict or object argument and
\* keywords that name positional variables
SourceObject ==
  /\ last.op = "mapurl" /\ last.resid \in DOMAIN mappings /\ last.obj.given
  /\ \A k \in DOMAIN last.kwds : k \in DOMAIN LastMapping.vardict

\* The value each variable is to take: the keyword's, else the object's
ExpectedParams ==
  [nm \in DOMAIN LastMapping.vardict |->
     IF nm \in DOMAIN last.kwds THEN last.kwds[nm]
     ELSE IF nm \in DOMAIN last.obj.d THEN last.obj.d[nm]
     ELSE PyNone]

\* C11: given a single dict or object, mapurl gives every positional
\* variable not otherwise supplied the value of the same-named key; a
\* keyword that names the variable takes priority and its value is the one
\* substituted into the URL; a variable that is in neither raises the
\* missing-value error.
C11_SourceObjectFill ==
  SourceObject
    => IF \E nm \in DOMAIN ExpectedParams : ExpectedParams[nm] = PyNone
       THEN last.err = "RanvierError"
       ELSE /\ last.err = "ok"
            /\ last.params = ExpectedParams
            /\ last.url = MappingRender(LastMapping, ExpectedParams, rootloc).val

\* One variable came from the object and another from a keyword that the
\* object also had a value for
C11_Witness ==
  /\ SourceObject /\ last.err = "ok"
  /\ \E nm \in DOMAIN last.params : nm \notin DOMAIN last.kwds /\ last.params[nm] = last.obj.d[nm]
  /\ \E nm \in DOMAIN last.kwds : nm \in DOMAIN last.obj.d /\ last.kwds[nm] # last.obj.d[nm]
                                   /\ last.params[nm] = last.kwds[nm]

\* C12: the URL rendered for an absolute mapping (a static pattern that
\* starts with '/' or carries a scheme or host) is the same under every
\* root location the mapper can be configured with; the URL rendered for a
\* relative mapping (from a tree, or a static pattern without a leading
\* '/') is the root location followed by '/' and the path.
C12_RootLocPrefix ==
  (last.op = "mapurl" /\ last.err = "ok")
    => IF LastMapping.absolute
       THEN \A r \in RootLocs : MappingRender(LastMapping, last.params, r).val = last.url
       ELSE /\ StartsWith(UrlSplit(last.url).path, rootloc \o <<"/">>)
            /\ last.url = rootloc \o MappingRender(LastMapping, last.params, NoRootLoc).val

\* An absolute mapping rendered by a mapper that has a root location
C12_Witness ==
  /\ last.op = "mapurl" /\ last.err = "ok" /\ rootloc # NoRootLoc
  /\ LastMapping.absolute /\ ~StartsWith(last.url, rootloc)

\* add_alias(new, existing) returned
Aliased == last.op = "add_alias" /\ last.err = "ok"

\* C13: add_alias(new, existing) raises RanvierError and leaves the table
\* as it was when 'existing' is not registered; when it returns, 'new' is a
\* registered id whose mapurl, mapurl_pattern and match results are those
\* of 'existing' for all arguments, and the mapping stored under 'existing',
\* its resid included, is the one that was there.
C13_Alias ==
  /\ [][(last'.op = "add_alias" /\ last'.existing \notin DOMAIN mappings)
          => (last'.err = "RanvierError" /\ mappings' = mappings)]_vars
  /\ [][(last'.op = "add_alias" /\ last'.err = "ok")
          => (mappings'[last'.existing] = mappings[last'.existing]
              /\ mappings'[last'.existing].resid = last'.existing)]_vars
  /\ [](Aliased =>
          /\ last.resid \in DOMAIN mappings
          /\ mapurl_pattern(mappings, rootloc, last.resid) = mapurl_pattern(mappings, rootloc, last.existing)
          /\ \A c \in MapurlCalls :
               mapurl(mappings, rootloc, last.resid, c.args, c.obj, c.kwds)
                 = mapurl(mappings, rootloc, last.existing, c.args, c.obj, c.kwds)
          /\ \A url \in Urls :
               match(mappings, rootloc, last.resid, url) = match(mappings, rootloc, last.existing, url))

\* An alias of a mapping with variables, which some call maps to a URL
C13_Witness ==
  /\ Aliased /\ last.resid # last.existing
  /\ LastMapping.positional # <<>>
  /\ \E c \in MapurlCalls : mapurl(mappings, rootloc, last.resid, c.args, c.obj, c.kwds).err = "ok"
  /\ \E url \in Urls : ~match(mappings, rootloc, last.resid, url).none

\* A request is in the loop of handle_request, or has left it
Dispatching == last.op = "dispatch"

\* The URL of the resource of the redirect tree that redirects to itself
SelfRedirectUri == rootloc \o <<"/", "l">>

C15_ReporterBracketing ==
  /\ []((Dispatching /\ last.pc = "done") => last.open = 0)
  /\ []((Dispatching /\ last.pc = "begin") => last.open = 0)
  /\ [](Dispatching => last.open \in {0, 1})

\* C16: during a dispatch (the steps of one iteration of the request loop) the
\* index of the locator never decreases and its list of segments is never
\* changed; isleaf() is true exactly when the index is the number of segments.
C16_LocatorInvariant ==
  /\ [][(Dispatching /\ last.pc = "delegate" /\ last'.pc \in {"delegate", "end"})
          => /\ last'.locator.index >= last.locator.index
             /\ last'.locator.path = last.locator.path
             /\ last'.locator.path = from_uri(DropFirst(last.uri, Len(rootloc)), rootloc).path]_vars
  /\ []((Dispatching /\ last.pc \in {"delegate", "end"})
          => (isleaf(last.locator) <=> last.locator.index = Len(last.locator.path)))

\* A dispatch that went down two segments and ended on a leaf
C16_Witness ==
  /\ Dispatching /\ last.pc = "end" /\ last.response.kind = "handled"
  /\ last.locator.index = 2 /\ Len(last.locator.path) = 2 /\ isleaf(last.locator)

\* Tree t has a Folder whose _default names a child that does not exist
MissingDefault(t) ==
  \E n \in 1..Len(Trees[t]) : Trees[t][n].cls = "Folder" /\ FolderDefault(Trees[t][n]).kind = "name"

\* The request raised the 'folder default child not found' RanvierError
DefaultNotFound ==
  /\ Dispatching /\ last.pc \in {"end", "done"}
  /\ last.response.kind = "raise" /\ last.response.err = "RanvierError"
  /\ Trees[root_resource][last.node].cls = "Folder"

FolderBelowLeaf ==
  /\ Dispatching /\ last.pc = "delegate"
  /\ Trees[root_resource][last.node].cls \in {"Folder", "FolderWithMenu"}
  /\ ~isleaf(last.locator) /\ last.locator.index < Len(last.locator.path)

\* C20: when a Folder is handled with the locator not at a leaf and the
\* current segment is not a child name, the response gets NotFound, the index
\* of the locator is unchanged and no child is delegated to; when the segment
\* names a child, the index advances by exactly one and control is delegated
\* to exactly that child.
C20_FolderChildDispatch ==
  /\ [][(FolderBelowLeaf /\ ~HasChildNamed(Trees[root_resource][last.node].children, current(last.locator)))
          => /\ last'.pc = "end" /\ last'.response = errorNotFound
             /\ last'.locator = last.locator
             /\ last'.node = last.node]_vars
  /\ [][(FolderBelowLeaf /\ HasChildNamed(Trees[root_resource][last.node].children, current(last.locator)))
          => /\ last'.pc = "delegate" /\ last'.response = NoResponse
             /\ last'.locator.index = last.locator.index + 1
             /\ last'.locator.path = last.locator.path
             /\ last'.node = ChildNamed(Trees[root_resource][last.node].children, current(last.locator)).node]_vars

\* A folder reached through its parent did not find the next segment
\* among its children
C20_Witness ==
  /\ Dispatching /\ last.pc = "end" /\ last.response.kind = "notfound"
  /\ last.node # 1 /\ Trees[root_resource][last.node].cls = "Folder"
  /\ last.locator.index = 1 /\ Len(last.locator.path) = 2

\* Two variable components of a path have one name
DuplicateVar(components) ==
  \E i, j \in 1..Len(components) :
    i < j /\ components[i].isvar /\ components[j].isvar /\ components[i].name = components[j].name

\* A variable component of an enumerated path has the name of one of the
\* optional parameters declared along that path
SharesOptParam(path) ==
  \E i \in 1..Len(path[2]), k \in 1..Len(path[3].l) :
    path[2][i].isvar /\ path[2][i].name = path[3].l[k].name

\* A name is used twice on a path of the tree t
TreeCollides(t) ==
  /\ visit_root(Trees[t]).err = "ok"
  /\ \E i \in 1..Len(visit_root(Trees[t]).val) :
       DuplicateVar(visit_root(Trees[t]).val[i][2]) \/ SharesOptParam(visit_root(Trees[t]).val[i])

\* Two variable segments of a pattern share their name: RanvierError
StaticCollisionRaises ==
  [][(/\ last'.op = "add_static" /\ ~last'.defaults.given
      /\ urlpattern_to_components(last'.urlpattern).err = "ok"
      /\ DuplicateVar(urlpattern_to_components(last'.urlpattern).val.unparsed.components))
       => last'.err = "RanvierError"]_vars

\* C18: building a Mapping for a path in which a name is used twice raises
\* RanvierError, both when two variable segments share the name and when a
\* variable segment shares its name with an optional parameter declared by a
\* node of the same path.
C18_NameCollision ==
  /\ StaticCollisionRaises
  /\ [][(last'.op = "initialize" /\ TreeCollides(root_resource')) => last'.err = "RanvierError"]_vars

\* mapurl rendered the URL of a resource that is not a leaf (the flag the
\* code names isterminal), with a path that has segments and no query
NonLeafRendered ==
  /\ last.op = "mapurl" /\ last.err = "ok"
  /\ last.resid \in DOMAIN mappings
  /\ mappings[last.resid].isterminal
  /\ mappings[last.resid].components # <<>>
  /\ mappings[last.resid].suffix = <<<<>>, <<>>>>

\* The URL of a resource that is not a leaf gets its trailing slash
\* whatever the mapper was constructed with
TrailingAlwaysRendered == NonLeafRendered => EndsWith(last.url, <<"/">>)

\* C19: a UrlMapper constructed with render_trailing=False never appends a
\* trailing slash to the URL of a resource that is not a leaf, and one
\* constructed with render_trailing=True (the default) does.
C19_RenderTrailing == NonLeafRendered => (EndsWith(last.url, <<"/">>) <=> render_trailing)

\* The resource a dispatch step is about to handle is a Folder and the
\* locator is at a leaf
FolderAtLeaf ==
  /\ Dispatching /\ last.pc = "delegate"
  /\ Trees[root_resource][last.node].cls = "Folder"
  /\ isleaf(last.locator)

\* The default-handling hook of the Folder acted: its default resource is
\* handled next, or the response is NotFound when it has none
DefaultHookActed ==
  IF FolderDefault(Trees[root_resource][last.node]).kind = "none"
  THEN last'.pc = "end" /\ last'.response = errorNotFound
  ELSE /\ last'.pc = "delegate" /\ last'.response = NoResponse
       /\ last'.node = FolderDefault(Trees[root_resource][last.node]).node
       /\ last'.locator = last.locator

\* C21 as stated: whenever dispatch reaches a Folder with the locator at a
\* leaf, the Folder invokes its default-handling hook: with a configured
\* default the default resource is delegated to, and with no default the
\* outcome is NotFound.
C21_FolderAtLeaf == [][FolderAtLeaf => DefaultHookActed]_vars

\* C21 amended: a Folder reached at a leaf by a URL without a trailing slash
\* answers with a redirect to the same URL with the slash and does not invoke
\* the hook; reached with a trailing slash it invokes the hook, which
\* delegates to the default resource, answers NotFound when no default is
\* configured, and raises RanvierError when the default names no child.
C21_FolderAtLeafTrailing ==
  /\ [][(FolderAtLeaf /\ ~last.locator.trailing)
          => /\ last'.pc = "end"
             /\ last'.response = redirect(LocatorUri(last.locator) \o <<"/">>)]_vars
  /\ [][(FolderAtLeaf /\ last.locator.trailing
           /\ FolderDefault(Trees[root_resource][last.node]).kind # "name")
          => DefaultHookActed]_vars
  /\ [][(FolderAtLeaf /\ last.locator.trailing
           /\ FolderDefault(Trees[root_resource][last.node]).kind = "name")
          => (last'.pc = "end" /\ last'.response = Raised("RanvierError"))]_vars

\* A request with a trailing slash was served by the default resource of the
\* folder it names
C21_Witness ==
  /\ Dispatching /\ last.pc = "end" /\ root_resource = 2
  /\ last.response.kind = "handled" /\ last.response.handler = Res(2, 3)
  /\ isleaf(last.locator) /\ last.locator.trailing /\ last.locator.index = 1

\* What node n of tree t declares to its visitor
Declared(t, n) == enum_targets(Trees[t], n, EnumVisitor(n)).val

\* A branch path from the root extended by the branch b of its last node
Branched(t, w, b) ==
  [node |-> b.res,
   comps |-> IF b.hascomp THEN Append(w.comps, b.comp) ELSE w.comps,
   opts |-> w.opts \o Declared(t, w.node).optparams]

\* The branch paths in W and those one branch longer
Grown(t, W) ==
  W \cup UNION { {Branched(t, w, Declared(t, w.node).branchs[i]) : i \in 1..Len(Declared(t, w.node).branchs)} : w \in W }

RECURSIVE BranchPaths(_, _)
\* The branch paths of at most k branches from the root of tree t
BranchPaths(t, k) ==
  IF k = 0 THEN {[node |-> 1, comps |-> <<>>, opts |-> <<>>]} ELSE Grown(t, BranchPaths(t, k - 1))

\* The descriptor of a branch path whose last node declared itself a leaf
Descriptor(t, w) ==
  << w.node,
     IF Declared(t, w.node).leafhascomp THEN Append(w.comps, Declared(t, w.node).leafcomp) ELSE w.comps,
     PyList(w.opts \o Declared(t, w.node).optparams) >>

\* One descriptor per branch path of tree t that ends on a declared leaf
Descriptors(t) ==
  { Descriptor(t, w) : w \in {v \in BranchPaths(t, Len(Trees[t])) : Declared(t, v.node).isleaf} }

\* The resource, components and optional parameters of the paths of getpaths()
Enumerated(t) ==
  { <<visit_root(Trees[t]).val[i][1], visit_root(Trees[t]).val[i][2], visit_root(Trees[t]).val[i][3]>> :
      i \in 1..Len(visit_root(Trees[t]).val) }

\* C22: for a finite acyclic tree visit_root terminates and getpaths() holds
\* exactly one descriptor per branch path from the root that ends on a node
\* that declared itself a leaf: its components are those of the branches in
\* root-to-leaf order followed by the leaf's own trailing variable, anonymous
\* branches add no component, and its optional parameters are those declared
\* by the nodes of the path.
C22_EnumeratorOutput ==
  (last.op = "initialize" /\ visit_root(Trees[root_resource]).err = "ok")
    => /\ Enumerated(root_resource) = Descriptors(root_resource)
       /\ Len(visit_root(Trees[root_resource]).val) = Cardinality(Descriptors(root_resource))

\* The tree with the delegators was enumerated: a leaf behind an anonymous
\* branch has the path of the delegator, a leaf behind a variable branch has
\* the variable as its last component
C22_Witness ==
  /\ last.op = "initialize" /\ root_resource = 5
  /\ <<3, <<FixedComponent(<<"d">>)>>, PyList(<<>>)>> \in Enumerated(5)
  /\ <<7, <<FixedComponent(<<"c">>), VarComponent(<<"n">>, NoFormat)>>, PyList(<<>>)>> \in Enumerated(5)
  /\ Cardinality(Enumerated(5)) = 4

\* The resource a dispatch step is about to handle is a delegator
DelegatorStep ==
  /\ Dispatching /\ last.pc = "delegate"
  /\ Trees[root_resource][last.node].cls \in {"Delegater", "RemoveBase"}

\* C23: DelegaterResource.handle runs the local step handle_this first; if
\* that step returns a value the next resource is never handled for this
\* request, otherwise the next resource is handled exactly once, after the
\* local step.
C23_Delegator ==
  /\ [][(DelegatorStep /\ handle_this(Trees[root_resource][last.node], last.locator).rcode)
          => /\ last'.pc = "end" /\ last'.response = ReturnedTrue
             /\ last'.node = last.node]_vars
  /\ [][(DelegatorStep /\ ~handle_this(Trees[root_resource][last.node], last.locator).rcode)
          => /\ last'.pc = "delegate" /\ last'.response = NoResponse
             /\ last'.node = Trees[root_resource][last.node].next
             /\ last'.locator = handle_this(Trees[root_resource][last.node], last.locator).locator]_vars
  /\ [][(Dispatching /\ last.pc = "end" /\ last.response.kind = "stopped")
          => (last'.pc = "done" /\ last'.node = last.node)]_vars
  /\ []((Dispatching /\ last.response.kind = "stopped")
          => /\ Trees[root_resource][last.node].cls = "Delegater"
             /\ Trees[root_resource][last.node].rcode)

\* The leaf behind a delegator served the request the delegator forwarded
C23_Witness ==
  /\ Dispatching /\ last.pc = "done" /\ root_resource = 5
  /\ last.response.kind = "handled" /\ last.response.handler = Res(5, 3)
  /\ last.node = 3 /\ last.locator.index = 1

\* The resource a dispatch step is about to handle is a CompVarResource
CompVarStep ==
  /\ Dispatching /\ last.pc = "delegate"
  /\ Trees[root_resource][last.node].cls = "CompVar"

\* A CompVarResource handled at a leaf signals NotFound, stores nothing and
\* does not forward
CompVarAtLeaf ==
  [][(CompVarStep /\ isleaf(last.locator))
       => /\ last'.pc = "end" /\ last'.response = errorNotFound
          /\ last'.slots = last.slots /\ last'.node = last.node]_vars

\* C24: when CompVarResource is handled with a segment remaining and the
\* default validation hook, the value of the current segment is stored in
\* the context under the configured name, the index of the locator advances
\* by exactly one and the next resource is then handled; handled at a leaf it
\* signals NotFound, stores nothing and does not forward.
C24_CompVar ==
  /\ [][(CompVarStep /\ last.locator.index < Len(last.locator.path))
          => /\ last'.pc = "delegate"
             /\ last'.slots = last.slots @@ (Trees[root_resource][last.node].varname :> current(last.locator))
             /\ last'.locator.index = last.locator.index + 1
             /\ last'.node = Trees[root_resource][last.node].next]_vars
  /\ CompVarAtLeaf

\* C27: in every state of a dispatch through trees built from Folder,
\* LeafResource, DelegaterResource, CompVarResource and RemoveBase the index
\* of the locator is between 0 and the number of segments, so that current()
\* is only called with a valid index and a request for a path shorter than
\* the tree consumes ends in NotFound, not in an out-of-range access.
C27_LocatorBounds ==
  (Dispatching /\ last.pc \in {"delegate", "end", "done"})
    => /\ 0 <= last.locator.index
       /\ last.locator.index <= Len(last.locator.path)
       /\ last.response.err # "IndexError"

\* The segments segs are those of a URL of the mapping: the segments pre of
\* the root location, then one per component, a fixed component by its name
FixedAgree(pre, components, segs) ==
  /\ Len(segs) = Len(pre) + Len(components)
  /\ \A i \in 1..Len(pre) : segs[i] = pre[i]
  /\ \A i \in 1..Len(components) : components[i].isvar \/ segs[Len(pre) + i] = components[i].name

\* The segments of the root location a URL of the mapping starts with
RootSegments(mapping) == IF mapping.absolute THEN <<>> ELSE from_uri(rootloc, <<>>).path

\* C25: in the pattern match(id, url) uses, every fixed segment of the mapping
\* and the rootloc prefix match only the identical character sequence: a URL
\* that differs from the rendered URL in a character of a fixed segment
\* ('/sXc' against the fixed segment 's.c') yields None.
C25_LiteralFixed ==
  (last.op = "match" /\ last.err = "ok" /\ ~last.none /\ last.resid \in DOMAIN mappings)
    => FixedAgree(RootSegments(mappings[last.resid]), mappings[last.resid].components,
                  from_uri(UrlSplit(last.url).path, <<>>).path)

\* C29: match is total on registered ids: for every registered id and every
\* URL, match(id, url) returns a dict of values or None and never raises,
\* and match(id, mapurl(id, *values)) is not None, for static and external
\* mappings as well.
C29_MatchTotal ==
  /\ (last.op = "match" /\ last.resid \in DOMAIN mappings) => last.err = "ok"
  /\ (last.op = "match" /\ last.rendered) => (last.err = "ok" /\ ~last.none)

\* The non-empty '/'-separated segments of u, in order, read off one
\* character at a time
RECURSIVE SegmentsOf(_, _)
SegmentsOf(u, cur) ==
  IF u = <<>> THEN (IF cur = <<>> THEN <<>> ELSE <<cur>>)
  ELSE IF Head(u) = "/" THEN (IF cur = <<>> THEN <<>> ELSE <<cur>>) \o SegmentsOf(Tail(u), <<>>)
  ELSE SegmentsOf(Tail(u), Append(cur, Head(u)))

\* '/' before every segment
RECURSIVE Slashed(_)
Slashed(segs) == IF segs = <<>> THEN <<>> ELSE <<"/">> \o Head(segs) \o Slashed(Tail(segs))

\* The normalized form of u: '' for the empty path, '/' for the root
Normalized(u) ==
  IF SegmentsOf(u, <<>>) = <<>> THEN (IF u # <<>> /\ u[Len(u)] = "/" THEN <<"/">> ELSE <<>>)
  ELSE Slashed(SegmentsOf(u, <<>>)) \o (IF u[Len(u)] = "/" THEN <<"/">> ELSE <<>>)

\* The loop of handle_request makes the locator of a URI u, no root location
LocatorMade ==
  /\ last.op = "dispatch" /\ last.pc = "begin"
  /\ last'.op = "dispatch" /\ last'.pc = "delegate"
  /\ rootloc = NoRootLoc

\* C26: PathLocator.from_uri(u) yields the non-empty '/'-separated segments
\* of u in order, trailing is true iff u ends in '/', index is 0; for u empty
\* or starting with '/', uri() returns the normalized form of u.
C26_LocatorRoundTrip ==
  [][LocatorMade =>
       /\ last'.locator.path = SegmentsOf(last.uri, <<>>)
       /\ last'.locator.trailing = (last.uri # <<>> /\ last.uri[Len(last.uri)] = "/")
       /\ last'.locator.index = 0
       /\ (last.uri = <<>> \/ Head(last.uri) = "/") => LocatorUri(last'.locator) = Normalized(last.uri)]_vars

\* A URI with duplicate slashes has been made a locator of two segments
C26_Witness ==
  /\ last.op = "dispatch" /\ last.pc = "delegate" /\ rootloc = NoRootLoc
  /\ last.uri = <<"/", "/", "f", "/", "/", "g", "/">>
  /\ last.locator.path = <<<<"f">>, <<"g">>>> /\ last.locator.index = 0 /\ last.locator.trailing
  /\ LocatorUri(last.locator) = <<"/", "f", "/", "g", "/">>

\* A setup call has raised a construction error
SetupFailed == last'.op \in {"initialize", "add_static", "add_alias"} /\ last'.err # "ok"

\* C30: a failed setup leaves no partial table: when initialize, add_static
\* or add_alias raises a construction error, the set of registered mappings
\* is the same as before the call.
C30_NoPartialTable == [][SetupFailed => mappings' = mappings]_vars

\* The same of add_static and add_alias alone
StaticFailureKeepsTable == [][(SetupFailed /\ last'.op # "initialize") => mappings' = mappings]_vars

\* initialize has been called with a tree whose root is a FolderWithMenu
MenuInitialized == last.op = "initialize" /\ Trees[last.tree][1].cls = "FolderWithMenu"

\* The paths of the enumeration whose leaf is the root of the tree
RootPaths(r) == {i \in 1..Len(r.val) : r.val[i][1] = 1}

\* C28: for every configuration of a FolderWithMenu (no default, default
\* given as a string, default given as a resource including an empty Folder,
\* each with and without a resource-id), enum_targets declares the folder as
\* a leaf exactly once: enumeration never raises 'declared twice as a leaf'
\* and yields one path descriptor for the folder itself.
C28_MenuDeclaredOnce ==
  MenuInitialized =>
    /\ visit_root(Trees[last.tree]).err = "ok"
    /\ Cardinality(RootPaths(visit_root(Trees[last.tree]))) = 1

====
